---- MODULE Spec2Model ----
(***************************************************************************)
(* TranspoLogisticsDemo: the in-memory store (services/mockDb.ts), the     *)
(* RBAC middleware (middleware/rbac.ts) and the API route handlers built   *)
(* on them, as one state machine.  The store's tables are the variables;   *)
(* every route handler is one action that runs from the permission check   *)
(* to the response; `last` holds the request just handled and its          *)
(* response.                                                               *)
(***************************************************************************)
EXTENDS Integers, Sequences, FiniteSets, TLC

VARIABLES products, exhibitions, exhibitionProducts, orders,
          productLists, productListItems, last, inflight,
          template, aliased, instance

tables == <<products, exhibitions, exhibitionProducts, orders,
            productLists, productListItems>>

\* The state of the module of the store besides the data of its instance:
\* INITIAL_DATA, whether the data of the instance is the INITIAL_DATA object
\* itself, and the object in the static field MockDB.instance.
static == <<template, aliased, instance>>

vars == <<products, exhibitions, exhibitionProducts, orders,
          productLists, productListItems, last, inflight,
          template, aliased, instance>>

(***************************************************************************)
(* JavaScript values.  A request body is a record whose DOMAIN is the set  *)
(* of properties it carries; reading a property that is not there gives    *)
(* Undefined.                                                              *)
(***************************************************************************)
Undefined == "undefined"

Get(obj, key) == IF key \in DOMAIN obj THEN obj[key] ELSE Undefined

Has(obj, key) == key \in DOMAIN obj

\* JavaScript truthiness of a string-valued property.
Truthy(v) == v \notin {Undefined, ""}

\* { ...base, ...over }: the properties of over win.
Spread(base, over) == over @@ base

\* Array.prototype.findIndex, 1-based; 0 when no element satisfies Test.
FindIndex(seq, Test(_)) ==
    IF \E i \in 1..Len(seq) : Test(seq[i])
    THEN CHOOSE i \in 1..Len(seq) :
             Test(seq[i]) /\ \A j \in 1..(i - 1) : ~Test(seq[j])
    ELSE 0

\* Array.prototype.filter.
Filter(seq, Test(_)) == SelectSeq(seq, Test)

\* A JavaScript number: an integer or NaN.  Arithmetic on undefined is NaN.
Number(n) == [isNaN |-> FALSE, value |-> n]

NaN == [isNaN |-> TRUE, value |-> 0]

Plus(a, b) == IF a.isNaN \/ b.isNaN THEN NaN ELSE Number(a.value + b.value)

Times(a, b) == IF a.isNaN \/ b.isNaN THEN NaN ELSE Number(a.value * b.value)

\* obj[key] as an operand of + or *.
Operand(obj, key) == IF Has(obj, key) THEN Number(obj[key]) ELSE NaN

\* { ...rec, key: obj[key] }; a property whose value is undefined reads as
\* an absent one and is left out.
WithProperty(rec, key, obj) == IF Has(obj, key) THEN (key :> obj[key]) @@ rec ELSE rec

\* A value of request.json() that is an array, and one that is not.
Arr(s) == [isArray |-> TRUE, elems |-> s]

NotArray == [isArray |-> FALSE, elems |-> <<>>]

(***************************************************************************)
(* INITIAL_DATA: the seed of the store.  Fields that no handler reads or   *)
(* writes (category, prices, dates, images) are left out of the rows.      *)
(***************************************************************************)
INITIAL_users ==
    << [id |-> "u1", username |-> "admin",   role |-> "ADMIN"],
       [id |-> "u2", username |-> "manager", role |-> "MANAGER"],
       [id |-> "u3", username |-> "staff",   role |-> "USER"],
       [id |-> "u4", username |-> "viewer",  role |-> "VIEWER"] >>

INITIAL_products ==
    << [id |-> "456567", name |-> "Maggi",      isApproved |-> TRUE],
       [id |-> "456568", name |-> "Bru",        isApproved |-> FALSE],
       [id |-> "456569", name |-> "Red Bull",   isApproved |-> TRUE],
       [id |-> "456570", name |-> "Bourn Vita", isApproved |-> FALSE],
       [id |-> "456571", name |-> "Horlicks",   isApproved |-> TRUE] >>

INITIAL_exhibitions ==
    << [id |-> "oxurt5ywn", exhibitionId |-> "EX-2941", name |-> "test exibition",
        status |-> "PLANNING"],
       [id |-> "ui61d3cma", exhibitionId |-> "EX-7516", name |-> "test2",
        status |-> "PLANNING"],
       [id |-> "fs13x086f", exhibitionId |-> "EX-7460", name |-> "AAAA",
        status |-> "ACTIVE"] >>

INITIAL_exhibitionProducts ==
    << [id |-> "d7gyiq52d", exhibitionId |-> "EX-2941", productId |-> "456567",
        quantity |-> 1, status |-> "approved", supplierId |-> "current-user"],
       [id |-> "cszttszpu", exhibitionId |-> "EX-2941", productId |-> "456568",
        quantity |-> 1, status |-> "pending", supplierId |-> "current-user"],
       [id |-> "is0w5qty1", exhibitionId |-> "EX-2941", productId |-> "456570",
        quantity |-> 1, status |-> "pending", supplierId |-> "current-user"],
       [id |-> "7cajr3r7o", exhibitionId |-> "EX-2941", productId |-> "456571",
        quantity |-> 1, status |-> "pending", supplierId |-> "current-user"] >>

INITIAL_orders ==
    << [id |-> "7535", exhibition |-> "Taste & Treat Festival", quantity |-> 43,
        status |-> "Delayed"],
       [id |-> "5724", exhibition |-> "Flavors of the City", quantity |-> 22,
        status |-> "Received"],
       [id |-> "2775", exhibition |-> "Street Bite Market", quantity |-> 36,
        status |-> "Returned"] >>

INITIAL_productLists ==
    << [id |-> "a1e8x088e", exhibitionId |-> "EX-2941", supplierId |-> "current-user",
        status |-> "pending", createdAt |-> "2025-12-03T03:05:05.799Z",
        totalQuantity |-> Number(12)],
       [id |-> "r2is3icfx", exhibitionId |-> "EX-7460", supplierId |-> "current-user",
        status |-> "pending", createdAt |-> "2025-12-03T03:06:14.423Z",
        totalQuantity |-> Number(3)] >>

INITIAL_productListItems ==
    << [id |-> "15ukio6ll", productListId |-> "a1e8x088e", productId |-> "456567",
        quantity |-> 11, price |-> 430],
       [id |-> "y9leq73fw", productListId |-> "a1e8x088e", productId |-> "456568",
        quantity |-> 1, price |-> 257],
       [id |-> "j2n0iuw1l", productListId |-> "r2is3icfx", productId |-> "456567",
        quantity |-> 1, price |-> 430],
       [id |-> "r4zoefv9a", productListId |-> "r2is3icfx", productId |-> "456568",
        quantity |-> 1, price |-> 257],
       [id |-> "i66klbiam", productListId |-> "r2is3icfx", productId |-> "456569",
        quantity |-> 1, price |-> 405] >>

(***************************************************************************)
(* middleware/rbac.ts                                                      *)
(***************************************************************************)
UserRole == {"ADMIN", "MANAGER", "USER", "VIEWER"}

PERMISSIONS ==
    [ PRODUCT_CREATE    |-> {"ADMIN", "MANAGER", "USER"},
      PRODUCT_READ      |-> {"ADMIN", "MANAGER", "USER", "VIEWER"},
      PRODUCT_UPDATE    |-> {"ADMIN", "MANAGER"},
      PRODUCT_DELETE    |-> {"ADMIN"},
      EXHIBITION_CREATE |-> {"ADMIN", "MANAGER"},
      EXHIBITION_READ   |-> {"ADMIN", "MANAGER", "USER", "VIEWER"},
      EXHIBITION_UPDATE |-> {"ADMIN", "MANAGER"},
      APPROVAL_APPROVE  |-> {"ADMIN", "MANAGER"},
      APPROVAL_READ     |-> {"ADMIN", "MANAGER", "USER", "VIEWER"},
      ORDER_CREATE      |-> {"ADMIN", "MANAGER", "USER"},
      ORDER_READ        |-> {"ADMIN", "MANAGER", "USER", "VIEWER"},
      ORDER_UPDATE      |-> {"ADMIN", "MANAGER"} ]

\* PERMISSIONS with ORDER_CREATE open to every role.
PermissionOrderCreateAnyRole(cap) ==
    IF cap = "ORDER_CREATE" THEN [defined |-> TRUE, roles |-> UserRole]
    ELSE IF cap \in DOMAIN PERMISSIONS
    THEN [defined |-> TRUE, roles |-> PERMISSIONS[cap]]
    ELSE [defined |-> FALSE, roles |-> {}]

\* PERMISSIONS[cap] as JavaScript evaluates it: a key the object does not have
\* gives undefined, not an array.
Permission(cap) ==
    IF cap \in DOMAIN PERMISSIONS
    THEN [defined |-> TRUE, roles |-> PERMISSIONS[cap]]
    ELSE [defined |-> FALSE, roles |-> {}]

\* AuthContext | null
NullContext == [isNull |-> TRUE]

Context(user) == [isNull |-> FALSE, user |-> user]

\* MockDB.getUserById: the matching users, in table order (empty: undefined).
getUserById(id) == Filter(INITIAL_users, LAMBDA u : u.id = id)

\* The x-user-id header of a request; NoHeader when the request carries none.
NoHeader == ""

\* authenticateUser without the default user id.
authenticateUserNoDefault(token) ==
    LET found == getUserById(token)
    IN  IF found = <<>> THEN NullContext ELSE Context(found[1])

\* authenticateUser that falls back to the default user for an id of no user
\* as well.
authenticateUserDefaulting(token) ==
    LET found == getUserById(token)
    IN  IF found = <<>> THEN Context(getUserById("u3")[1]) ELSE Context(found[1])

authenticateUser(token) ==
    LET userId == IF token = NoHeader THEN "u3" ELSE token
        found  == getUserById(userId)
    IN  IF found = <<>> THEN NullContext ELSE Context(found[1])

\* hasRole evaluates allowedRoles.includes(...) on a non-null context: with
\* allowedRoles undefined that is a TypeError.
hasRoleThrows(context, allowedRoles) ==
    ~context.isNull /\ ~allowedRoles.defined

\* hasRole without the comparison of the role: any resolved user passes.
hasRoleAnyUser(context, allowedRoles) == ~context.isNull

\* hasRole that only keeps the VIEWER out.
hasRoleNotViewer(context, allowedRoles) ==
    IF context.isNull THEN FALSE
    ELSE context.user.role # "VIEWER"

hasRole(context, allowedRoles) ==
    IF context.isNull THEN FALSE
    ELSE context.user.role \in allowedRoles.roles

\* The outcome of a call of hasRole, as a value: "true", "false" or the
\* exception it raises.
hasRoleOutcome(context, allowedRoles) ==
    IF hasRoleThrows(context, allowedRoles) THEN "TypeError"
    ELSE IF hasRole(context, allowedRoles) THEN "true" ELSE "false"

checkPermission(context, permission) == hasRoleOutcome(context, permission)

\* requireAuth: 401 when no user resolves.
requireAuth(token) ==
    LET context == authenticateUser(token)
    IN  IF context.isNull
        THEN [authorized |-> FALSE, status |-> 401, error |-> "Unauthorized"]
        ELSE [authorized |-> TRUE, context |-> context]

\* requireRoles without its hasRole check.
requireRolesAuthOnly(token, allowedRoles) == requireAuth(token)

\* requireRoles: 401, then 403, then the context.  It does not catch the
\* TypeError of hasRole: the record of status 500 stands for the exception
\* leaving the function.
requireRoles(token, allowedRoles) ==
    LET authResult == requireAuth(token)
    IN  IF ~authResult.authorized THEN authResult
        ELSE IF hasRoleThrows(authResult.context, allowedRoles)
        THEN [authorized |-> FALSE, status |-> 500, error |-> "TypeError"]
        ELSE IF ~hasRole(authResult.context, allowedRoles)
        THEN [authorized |-> FALSE, status |-> 403,
              error |-> "Forbidden - Insufficient permissions"]
        ELSE authResult

(***************************************************************************)
(* services/mockDb.ts: the store's methods, as functions of the tables.    *)
(***************************************************************************)
\* MockDB.getProducts, as the rows of the array it returns.
getProducts(table) == table

\* MockDB.getProductById: Array.find, as the index of the first match (0:
\* undefined).
getProductById(table, id) == FindIndex(table, LAMBDA p : p.id = id)

addProduct(table, product) == Append(table, product)

\* updateProduct with the two spreads in the other order: the fields of the
\* existing row win over those of the updates.
updateProductExistingWins(table, id, updates) ==
    LET index == FindIndex(table, LAMBDA p : p.id = id)
    IN  IF index = 0 THEN [table |-> table, index |-> 0]
        ELSE [table |-> [table EXCEPT ![index] = Spread(updates, table[index])],
              index |-> index]

\* The update methods give the table after the call and the index of the row
\* they return (0: they return null).
updateProduct(table, id, updates) ==
    LET index == FindIndex(table, LAMBDA p : p.id = id)
    IN  IF index = 0 THEN [table |-> table, index |-> 0]
        ELSE [table |-> [table EXCEPT ![index] = Spread(table[index], updates)],
              index |-> index]

\* splice(index, 1)
Splice(table, index) ==
    [i \in 1..(Len(table) - 1) |-> IF i < index THEN table[i] ELSE table[i + 1]]

deleteProduct(table, id) ==
    LET index == FindIndex(table, LAMBDA p : p.id = id)
    IN  IF index = 0 THEN [table |-> table, result |-> FALSE]
        ELSE [table |-> Splice(table, index), result |-> TRUE]

addExhibition(table, exhibition) == Append(table, exhibition)

updateExhibition(table, id, updates) ==
    LET index == FindIndex(table, LAMBDA e : e.id = id)
    IN  IF index = 0 THEN [table |-> table, index |-> 0]
        ELSE [table |-> [table EXCEPT ![index] = Spread(table[index], updates)],
              index |-> index]

getExhibitionProductsByExhibitionId(table, exhibitionId) ==
    Filter(table, LAMBDA ep : ep.exhibitionId = exhibitionId)

addExhibitionProduct(table, exhibitionProduct) == Append(table, exhibitionProduct)

\* updateExhibitionProduct that merges the updates into a copy of the row
\* and does not write the copy back.
updateExhibitionProductNoWrite(table, id, updates) ==
    [table |-> table, index |-> FindIndex(table, LAMBDA ep : ep.id = id)]

\* updateExhibitionProduct that also stamps the row it updates.
updateExhibitionProductStamped(table, id, updates) ==
    LET index == FindIndex(table, LAMBDA ep : ep.id = id)
    IN  IF index = 0 THEN [table |-> table, index |-> 0]
        ELSE [table |-> [table EXCEPT ![index] =
                            Spread(table[index], Spread(updates, [updatedAt |-> "now"]))],
              index |-> index]

\* updateExhibitionProduct that merges the updates into the row and names
\* the caller as its supplier.
updateExhibitionProductAsSupplier(table, id, updates) ==
    LET index == FindIndex(table, LAMBDA ep : ep.id = id)
    IN  IF index = 0 THEN [table |-> table, index |-> 0]
        ELSE [table |-> [table EXCEPT ![index] =
                            Spread(Spread(table[index], updates),
                                   [supplierId |-> "approver"])],
              index |-> index]

updateExhibitionProduct(table, id, updates) ==
    LET index == FindIndex(table, LAMBDA ep : ep.id = id)
    IN  IF index = 0 THEN [table |-> table, index |-> 0]
        ELSE [table |-> [table EXCEPT ![index] = Spread(table[index], updates)],
              index |-> index]

\* addOrder that writes the order over the last row of the table.
addOrderOverLast(table, order) ==
    Append(SubSeq(table, 1, Len(table) - 1), order)

addOrder(table, order) == Append(table, order)

getPendingExhibitionProducts(table) ==
    Filter(table, LAMBDA ep : ep.status = "pending")

getApprovedExhibitionProducts(table, exhibitionId) ==
    Filter(table, LAMBDA ep : ep.exhibitionId = exhibitionId /\ ep.status = "approved")

\* Array.find gives the first row of the pair; no row: false.
\* isProductApprovedForExhibition that answers with the isApproved flag of the
\* product and not with the status of the row.
isProductApprovedByFlag(table, exhibitionId, productId) ==
    \E i \in DOMAIN products : products[i].id = productId /\ products[i].isApproved = TRUE

\* isProductApprovedForExhibition that answers from the last row of the pair.
isProductApprovedByLastRow(table, exhibitionId, productId) ==
    \E i \in DOMAIN table :
        /\ table[i].exhibitionId = exhibitionId /\ table[i].productId = productId
        /\ table[i].status = "approved"
        /\ \A j \in DOMAIN table :
               (table[j].exhibitionId = exhibitionId /\ table[j].productId = productId)
               => j <= i

isProductApprovedForExhibition(table, exhibitionId, productId) ==
    LET index == FindIndex(table, LAMBDA ep : ep.exhibitionId = exhibitionId
                                              /\ ep.productId = productId)
    IN  IF index = 0 THEN FALSE ELSE table[index].status = "approved"

getProductLists(table) == table

getProductListById(table, id) == FindIndex(table, LAMBDA pl : pl.id = id)

\* addProductList that stores the list as approved.
addProductListApproved(table, productList) ==
    Append(table, [productList EXCEPT !.status = "approved"])

addProductList(table, productList) == Append(table, productList)

updateProductList(table, id, updates) ==
    LET index == FindIndex(table, LAMBDA pl : pl.id = id)
    IN  IF index = 0 THEN [table |-> table, index |-> 0]
        ELSE [table |-> [table EXCEPT ![index] = Spread(table[index], updates)],
              index |-> index]

getProductListItemsByProductListId(table, productListId) ==
    Filter(table, LAMBDA pli : pli.productListId = productListId)

\* addProductListItem that stores at most one item for a list.
addProductListItemOnce(table, item) ==
    IF \E i \in DOMAIN table : table[i].productListId = item.productListId
    THEN table
    ELSE Append(table, item)

addProductListItem(table, item) == Append(table, item)

\* deleteProductListItemsByProductListId that removes nothing.
deleteNoProductListItems(table, productListId) == table

deleteProductListItemsByProductListId(table, productListId) ==
    Filter(table, LAMBDA item : item.productListId # productListId)

(***************************************************************************)
(* Requests and responses.                                                 *)
(***************************************************************************)
NoArgs == <<>>

Response(op, token, args, status, body) ==
    [op |-> op, token |-> token, args |-> args, status |-> status, body |-> body]

\* The response of a handler whose requireRoles check did not authorize: the
\* body and the path parameters of the request have not been read.
Refused(op, token, authResult) ==
    Response(op, token, NoArgs, authResult.status, [error |-> authResult.error])

\* An element of a products / items array that is null: reading a property
\* of it is a TypeError.
NullEntry == [isNull |-> TRUE]

IsNullEntry(p) == Has(p, "isNull")

(***************************************************************************)
(* Bounds of the model and the inputs the requests are drawn from.         *)
(***************************************************************************)
\* The most rows of the store that differ from the rows of the seed.
MaxChangedRows == 2

\* The longest items array of an order request.
MaxItems == 2

\* The longest products array of an exhibition request.
MaxEntries == 2

\* The rows of the store that differ from the seed when its methods are
\* called directly.
MaxStoreChangedRows == 1

\* The most handlers suspended at an await at one time.
MaxInFlight == 2

MaxLinkageChangedRows == 3

\* The most rows that differ from the seed when the methods of the store
\* are called directly after its construction or a reset.
MaxMockDBChangedRows == 2

\* x-user-id: the four seeded users, no header, and an id of no user.
Tokens == {"u1", "u2", "u3", "u4", NoHeader, "u9"}

\* Math.random() draws.
RandomProductIds == {"900001"}

RandomExhibitionCodes == {"EX-0001"}

RandomExhibitionIds == {"x1"}

RandomExhibitionProductIds == {"n1"}

RandomOrderIds == {"1001"}

\* new Date().toISOString()
Now == "now"

ProductIdInputs == {"456568", "900001", "nope"}

UpdatedProductIds == {"900001", "nope"}

ProductForms ==
    { [name |-> "Widget"],
      [id |-> "456568", name |-> "Widget", isApproved |-> "true"] }

ProductUpdates == { [isApproved |-> TRUE] }

\* Elements of a products array of an exhibition request.
ProductEntries ==
    { [productId |-> "456567", quantity |-> 1],
      [productId |-> "456568", quantity |-> 1, status |-> "approved"] }

SeqsUpTo(S, n) == UNION { [1..k -> S] : k \in 0..n }

\* The sequences of at most n elements of S that repeat no element.
Distinct(s) == \A i, j \in DOMAIN s : s[i] = s[j] => i = j

DistinctSeqsUpTo(S, n) == { s \in SeqsUpTo(S, n) : Distinct(s) }

ExhibitionBodies ==
    { [name |-> "Expo"] }
    \cup { [name |-> "Expo", products |-> Arr(s)] :
             s \in DistinctSeqsUpTo(ProductEntries, MaxEntries) }

ExhibitionProductBodies ==
    { [products |-> Arr(s)] : s \in DistinctSeqsUpTo(ProductEntries, MaxEntries) }
    \cup { <<>>, [products |-> Arr(<<NullEntry>>)] }
    \cup { [products |-> Arr(<<p, NullEntry>>)] : p \in ProductEntries }

ExhibitionPathInputs == {"EX-2941"}

RandomIdSeqs == [1..MaxEntries -> RandomExhibitionProductIds]

\* The seeded approved row is only ever approved again.
ApproveBodies ==
    { [id |-> i, status |-> st] :
        i \in {"cszttszpu", "n1", "nope"}, st \in {"approved", "rejected", "pending"} }
    \cup { [id |-> "d7gyiq52d", status |-> "approved"] }

OrderItems == { [productId |-> "456567", quantity |-> 5],
                [productId |-> "456568", quantity |-> 5] }

OrderBodies ==
    { [exhibitionId |-> "EX-2941", items |-> Arr(s)] :
        s \in DistinctSeqsUpTo(OrderItems, MaxItems) }
    \cup { [items |-> Arr(<<[productId |-> "456568", quantity |-> 5]>>)],
           [exhibitionId |-> "EX-2941"],
           [exhibitionId |-> "EX-2941",
            items |-> Arr(<<[productId |-> "456567", quantity |-> 5]>>),
            id |-> "7535", status |-> "SHIPPED", createdAt |-> "1999"] }

RandomProductListIds == {"L1"}

RandomItemIdSeqs == [1..MaxItems -> {"i1"}]

\* Items of a product list: a product that is pending for EX-2941, with and
\* without a price.
ProductListItemInputs ==
    { [productId |-> "456570", quantity |-> 2, price |-> 10],
      [productId |-> "456568", quantity |-> 3] }

\* An item of a request body that names a product and no quantity.
ItemWithoutQuantity == [productId |-> "456569", price |-> 5]

ProductListBodies ==
    { [exhibitionId |-> "EX-2941", supplierId |-> "s1", items |-> Arr(s)] :
        s \in DistinctSeqsUpTo(ProductListItemInputs, MaxItems) }
    \cup { [exhibitionId |-> "EX-2941", supplierId |-> "s1"],
           [exhibitionId |-> "EX-2941", supplierId |-> "s1",
            items |-> Arr(<<NullEntry>>)],
           [exhibitionId |-> "EX-2941", supplierId |-> "s1",
            items |-> Arr(<<ItemWithoutQuantity>>)] }

\* The id and the body of an update of a product list.
ProductListUpdates ==
    { [id |-> "a1e8x088e", body |-> b] :
        b \in { [status |-> "approved"] }
              \cup { [items |-> Arr(s)] :
                       s \in DistinctSeqsUpTo(ProductListItemInputs, MaxItems) }
              \cup { [status |-> "approved", items |-> Arr(<<NullEntry>>)],
                     [items |-> Arr(<<ItemWithoutQuantity>>)] } }
    \cup { [id |-> "nope", body |-> [status |-> "approved"]] }

ProductListIdInputs == {"a1e8x088e", "nope"}

\* The exhibitionId parameter of the query of a list request, absent or not.
ProductListQueries == {Undefined, "EX-2941"}

\* The rows of a table that are not rows of its seed: the rows the requests
\* have added or changed.
Changed(table, seed) ==
    Cardinality({ i \in DOMAIN table :
                    \A j \in DOMAIN seed :
                        seed[j].id # table[i].id \/ seed[j] # table[i] })

ChangedRows ==
    Changed(products, INITIAL_products)
        + Changed(exhibitions, INITIAL_exhibitions)
        + Changed(exhibitionProducts, INITIAL_exhibitionProducts)
        + Changed(orders, INITIAL_orders)
        + Changed(productLists, INITIAL_productLists)
        + Changed(productListItems, INITIAL_productListItems)

\* The bound of the model: the store is within MaxChangedRows added or changed
\* rows of its seed.
Bounded == ChangedRows <= MaxChangedRows

(***************************************************************************)
(* The route handlers.  Each is one action, from its requireRoles check to *)
(* its response; the body and the path parameters of a request are read    *)
(* after the check, so an authorized handler draws them and a refused one  *)
(* does not.                                                               *)
(*                                                                         *)
(* app/api/products/route.ts and app/api/products/[id]/route.ts            *)
(***************************************************************************)
GET_products(token) ==
    LET authResult == requireRoles(token, Permission("PRODUCT_READ"))
    IN  /\ last' = IF ~authResult.authorized
                   THEN Refused("GET /api/products", token, authResult)
                   ELSE Response("GET /api/products", token, NoArgs, 200, products)
        /\ UNCHANGED tables

POST_products(token) ==
    LET authResult == requireRoles(token, Permission("PRODUCT_CREATE"))
    IN  IF ~authResult.authorized
        THEN /\ last' = Refused("POST /api/products", token, authResult)
             /\ UNCHANGED tables
        ELSE \E form \in ProductForms, randomId \in RandomProductIds :
             LET newProduct ==
                     [ id |-> IF Truthy(Get(form, "id")) THEN form.id ELSE randomId,
                       name |-> Get(form, "name"),
                       isApproved |-> FALSE ]
             IN  /\ products' = addProduct(products, newProduct)
                 /\ last' = Response("POST /api/products", token, form, 201, newProduct)
                 /\ UNCHANGED <<exhibitions, exhibitionProducts, orders, productLists,
                                productListItems>>

GET_product(token) ==
    LET authResult == requireRoles(token, Permission("PRODUCT_READ"))
    IN  /\ IF ~authResult.authorized
           THEN last' = Refused("GET /api/products/[id]", token, authResult)
           ELSE \E id \in ProductIdInputs :
                LET index == getProductById(products, id)
                IN  last' = IF index = 0
                            THEN Response("GET /api/products/[id]", token, [id |-> id],
                                          404, [error |-> "Product not found"])
                            ELSE Response("GET /api/products/[id]", token, [id |-> id],
                                          200, products[index])
        /\ UNCHANGED tables

PUT_product(token) ==
    LET authResult == requireRoles(token, Permission("PRODUCT_UPDATE"))
    IN  IF ~authResult.authorized
        THEN /\ last' = Refused("PUT /api/products/[id]", token, authResult)
             /\ UNCHANGED tables
        ELSE \E id \in UpdatedProductIds, body \in ProductUpdates :
             LET updatedProduct == updateProduct(products, id, body)
             IN  /\ products' = updatedProduct.table
                 /\ last' = IF updatedProduct.index = 0
                            THEN Response("PUT /api/products/[id]", token,
                                          [id |-> id, body |-> body], 404,
                                          [error |-> "Product not found"])
                            ELSE Response("PUT /api/products/[id]", token,
                                          [id |-> id, body |-> body], 200,
                                          updatedProduct.table[updatedProduct.index])
                 /\ UNCHANGED <<exhibitions, exhibitionProducts, orders, productLists,
                                productListItems>>

\* The DELETE handler with the capability of the PUT handler.
DELETE_productAsUpdate(token) ==
    LET authResult == requireRoles(token, Permission("PRODUCT_UPDATE"))
    IN  IF ~authResult.authorized
        THEN /\ last' = Refused("DELETE /api/products/[id]", token, authResult)
             /\ UNCHANGED tables
        ELSE \E id \in ProductIdInputs :
             LET success == deleteProduct(products, id)
             IN  /\ products' = success.table
                 /\ last' = IF ~success.result
                            THEN Response("DELETE /api/products/[id]", token,
                                          [id |-> id], 404,
                                          [error |-> "Product not found"])
                            ELSE Response("DELETE /api/products/[id]", token,
                                          [id |-> id], 200,
                                          [message |-> "Product deleted"])
                 /\ UNCHANGED <<exhibitions, exhibitionProducts, orders, productLists,
                                productListItems>>

DELETE_product(token) ==
    LET authResult == requireRoles(token, Permission("PRODUCT_DELETE"))
    IN  IF ~authResult.authorized
        THEN /\ last' = Refused("DELETE /api/products/[id]", token, authResult)
             /\ UNCHANGED tables
        ELSE \E id \in ProductIdInputs :
             LET success == deleteProduct(products, id)
             IN  /\ products' = success.table
                 /\ last' = IF ~success.result
                            THEN Response("DELETE /api/products/[id]", token,
                                          [id |-> id], 404,
                                          [error |-> "Product not found"])
                            ELSE Response("DELETE /api/products/[id]", token,
                                          [id |-> id], 200,
                                          [message |-> "Product deleted"])
                 /\ UNCHANGED <<exhibitions, exhibitionProducts, orders, productLists,
                                productListItems>>

(***************************************************************************)
(* app/api/exhibitions/route.ts, app/api/exhibitions/[id]/products/route.ts*)
(***************************************************************************)
\* if (products && Array.isArray(products))
IsArrayProperty(body, key) == Has(body, key) /\ body[key].isArray

\* The elements a forEach callback completes on: those before the first null
\* element, where reading p.productId throws.
Completed(elems) ==
    LET k == FindIndex(elems, IsNullEntry)
    IN  IF k = 0 THEN elems ELSE SubSeq(elems, 1, k - 1)

Throws(elems) == FindIndex(elems, IsNullEntry) # 0

\* newExhibitionProduct that lets the entry of the request set the status.
newExhibitionProductOfEntry(exhibitionId, p, randomId) ==
    WithProperty([ id |-> randomId,
                   exhibitionId |-> exhibitionId,
                   productId |-> Get(p, "productId"),
                   quantity |-> Get(p, "quantity"),
                   status |-> IF Has(p, "status") THEN p.status ELSE "pending",
                   supplierId |-> "current-user" ],
                 "price", p)

newExhibitionProduct(exhibitionId, p, randomId) ==
    WithProperty([ id |-> randomId,
                   exhibitionId |-> exhibitionId,
                   productId |-> Get(p, "productId"),
                   quantity |-> Get(p, "quantity"),
                   status |-> "pending",
                   supplierId |-> "current-user" ],
                 "price", p)

RECURSIVE forEachAddExhibitionProduct(_, _, _, _)
forEachAddExhibitionProduct(table, exhibitionId, elems, randomIds) ==
    IF elems = <<>> THEN table
    ELSE forEachAddExhibitionProduct(
             addExhibitionProduct(table,
                 newExhibitionProduct(exhibitionId, Head(elems), Head(randomIds))),
             exhibitionId, Tail(elems), Tail(randomIds))

GET_exhibitions(token) ==
    LET authResult == requireRoles(token, Permission("EXHIBITION_READ"))
    IN  /\ last' = IF ~authResult.authorized
                   THEN Refused("GET /api/exhibitions", token, authResult)
                   ELSE Response("GET /api/exhibitions", token, NoArgs, 200, exhibitions)
        /\ UNCHANGED tables

POST_exhibitions(token) ==
    LET authResult == requireRoles(token, Permission("EXHIBITION_CREATE"))
    IN  IF ~authResult.authorized
        THEN /\ last' = Refused("POST /api/exhibitions", token, authResult)
             /\ UNCHANGED tables
        ELSE \E body \in ExhibitionBodies, randomCode \in RandomExhibitionCodes,
                randomId \in RandomExhibitionIds, randomIds \in RandomIdSeqs :
             LET newExhibition ==
                     [ id |-> randomId, exhibitionId |-> randomCode,
                       name |-> Get(body, "name"), status |-> "PLANNING" ]
                 elems == IF IsArrayProperty(body, "products")
                          THEN body.products.elems ELSE <<>>
             IN  /\ exhibitions' = addExhibition(exhibitions, newExhibition)
                 /\ exhibitionProducts' =
                        forEachAddExhibitionProduct(exhibitionProducts,
                            newExhibition.exhibitionId, Completed(elems), randomIds)
                 /\ last' = IF Throws(elems)
                            THEN Response("POST /api/exhibitions", token, body, 500,
                                          [error |-> "Failed to create exhibition"])
                            ELSE Response("POST /api/exhibitions", token, body, 201,
                                          newExhibition)
                 /\ UNCHANGED <<products, orders, productLists, productListItems>>

GET_exhibition_products(token) ==
    LET authResult == requireRoles(token, Permission("EXHIBITION_READ"))
    IN  /\ IF ~authResult.authorized
           THEN last' = Refused("GET /api/exhibitions/[id]/products", token, authResult)
           ELSE \E exhibitionId \in ExhibitionPathInputs :
                LET rows == getExhibitionProductsByExhibitionId(exhibitionProducts,
                                                                exhibitionId)
                    enriched ==
                        [ i \in 1..Len(rows) |->
                            LET index == getProductById(products, rows[i].productId)
                            IN  [ row |-> rows[i],
                                  productName |-> IF index = 0 THEN Undefined
                                                  ELSE products[index].name ] ]
                IN  last' = Response("GET /api/exhibitions/[id]/products", token,
                                     [id |-> exhibitionId], 200, enriched)
        /\ UNCHANGED tables

\* The handler from the reading of its path parameter and body on.
AddExhibitionProducts(token, exhibitionId, body, randomIds) ==
    LET elems == IF IsArrayProperty(body, "products")
                 THEN body.products.elems ELSE <<>>
    IN  /\ exhibitionProducts' =
               forEachAddExhibitionProduct(exhibitionProducts, exhibitionId,
                                           Completed(elems), randomIds)
        /\ last' = IF Throws(elems)
                   THEN Response("POST /api/exhibitions/[id]/products", token,
                                 [id |-> exhibitionId, body |-> body], 500,
                                 [error |-> "Failed to add products"])
                   ELSE Response("POST /api/exhibitions/[id]/products", token,
                                 [id |-> exhibitionId, body |-> body], 201,
                                 [success |-> TRUE])
        /\ UNCHANGED <<products, exhibitions, orders, productLists,
                       productListItems>>

POST_exhibition_products(token) ==
    LET authResult == requireRoles(token, Permission("EXHIBITION_CREATE"))
    IN  IF ~authResult.authorized
        THEN /\ last' = Refused("POST /api/exhibitions/[id]/products", token, authResult)
             /\ UNCHANGED tables
        ELSE \E exhibitionId \in ExhibitionPathInputs, body \in ExhibitionProductBodies,
                randomIds \in RandomIdSeqs :
             AddExhibitionProducts(token, exhibitionId, body, randomIds)

(***************************************************************************)
(* app/api/exhibitions/approve/route.ts                                    *)
(***************************************************************************)
GET_approve(token) ==
    LET authResult == requireRoles(token, Permission("APPROVAL_READ"))
        pendingProducts == getPendingExhibitionProducts(exhibitionProducts)
    IN  /\ last' = IF ~authResult.authorized
                   THEN Refused("GET /api/exhibitions/approve", token, authResult)
                   ELSE Response("GET /api/exhibitions/approve", token, NoArgs, 200,
                                 pendingProducts)
        /\ UNCHANGED tables

\* A status check that accepts every status the request carries.
ValidStatusAny(status) == Truthy(status)

\* ['approved', 'rejected'].includes(status)
ValidStatus(status) == status \in {"approved", "rejected"}

POST_approve(token) ==
    LET authResult == requireRoles(token, Permission("APPROVAL_APPROVE"))
    IN  IF ~authResult.authorized
        THEN /\ last' = Refused("POST /api/exhibitions/approve", token, authResult)
             /\ UNCHANGED tables
        ELSE \E body \in ApproveBodies :
             LET id == Get(body, "id")
                 status == Get(body, "status")
                 updatedProduct ==
                     updateExhibitionProduct(exhibitionProducts, id, [status |-> status])
             IN  IF ~ValidStatus(status)
                 THEN /\ last' = Response("POST /api/exhibitions/approve", token, body,
                                          400, [error |-> "Invalid status"])
                      /\ UNCHANGED tables
                 ELSE /\ exhibitionProducts' = updatedProduct.table
                      /\ last' =
                           IF updatedProduct.index = 0
                           THEN Response("POST /api/exhibitions/approve", token, body,
                                         404, [error |-> "Product not found"])
                           ELSE Response("POST /api/exhibitions/approve", token, body,
                                         200, updatedProduct.table[updatedProduct.index])
                      /\ UNCHANGED <<products, exhibitions, orders, productLists,
                                     productListItems>>

(***************************************************************************)
(* app/api/orders/route.ts                                                 *)
(***************************************************************************)
\* A validation loop that returns after its first item.
FirstItemOnly(table, exhibitionId, elems) ==
    FindIndex(SubSeq(elems, 1, IF elems = <<>> THEN 0 ELSE 1), LAMBDA item :
        \/ IsNullEntry(item)
        \/ ~isProductApprovedForExhibition(table, exhibitionId, Get(item, "productId")))

\* The item the validation loop stops at: the first one that is null (reading
\* item.productId throws) or whose product is not approved; 0 when the loop
\* runs to its end.
FirstFailingItem(table, exhibitionId, elems) ==
    FindIndex(elems, LAMBDA item :
        \/ IsNullEntry(item)
        \/ ~isProductApprovedForExhibition(table, exhibitionId, Get(item, "productId")))

\* if (exhibitionId && items && Array.isArray(items))
Validated(body) == Truthy(Get(body, "exhibitionId")) /\ IsArrayProperty(body, "items")

\* The handler from the reading of its body on.
CreateOrder(token, body, randomId) ==
    LET exhibitionId == Get(body, "exhibitionId")
        k == IF Validated(body)
             THEN FirstFailingItem(exhibitionProducts, exhibitionId, body.items.elems)
             ELSE 0
        newOrder ==
            Spread([ id |-> randomId, exhibitionId |-> exhibitionId,
                     createdAt |-> Now, status |-> "DRAFT" ], body)
    IN  IF k # 0
        THEN /\ last' =
                  IF IsNullEntry(body.items.elems[k])
                  THEN Response("POST /api/orders", token, body, 500,
                                [error |-> "Failed to create order"])
                  ELSE LET productId == Get(body.items.elems[k], "productId")
                           index == getProductById(products, productId)
                       IN  Response("POST /api/orders", token, body, 400,
                               [ error |->
                                   "Cannot create order with unapproved products",
                                 productName |-> IF index = 0 THEN Undefined
                                                 ELSE products[index].name,
                                 productId |-> productId ])
             /\ UNCHANGED tables
        ELSE /\ orders' = addOrder(orders, newOrder)
             /\ last' = Response("POST /api/orders", token, body, 201, newOrder)
             /\ UNCHANGED <<products, exhibitions, exhibitionProducts,
                            productLists, productListItems>>

POST_orders(token) ==
    LET authResult == requireRoles(token, Permission("ORDER_CREATE"))
    IN  IF ~authResult.authorized
        THEN /\ last' = Refused("POST /api/orders", token, authResult)
             /\ UNCHANGED tables
        ELSE \E body \in OrderBodies, randomId \in RandomOrderIds :
             CreateOrder(token, body, randomId)

\* GET /api/orders: the exhibitions, each with the items of its approved
\* product lists and their totals.
GET_orders(token) ==
    LET authResult == requireRoles(token, Permission("ORDER_READ"))
        allProductLists == getProductLists(productLists)
        approvedLists == Filter(allProductLists, LAMBDA pl : pl.status = "approved")
        enrich(list, item) ==
            LET index == getProductById(products, Get(item, "productId"))
            IN  Spread(item, [ productName |-> IF index = 0 THEN Undefined
                                               ELSE products[index].name,
                               supplierId |-> list.supplierId ])
        itemsOf(list) == getProductListItemsByProductListId(productListItems, list.id)
        valueOf(items) ==
            LET sum[i \in 0..Len(items)] ==
                    IF i = 0 THEN Number(0)
                    ELSE Plus(sum[i - 1],
                              Times(Number(items[i].price), Operand(items[i], "quantity")))
            IN  sum[Len(items)]
        withOrders(exhibition) ==
            LET exhibitionLists ==
                    Filter(approvedLists,
                           LAMBDA pl : pl.exhibitionId = exhibition.exhibitionId)
                totalQuantity[i \in 0..Len(exhibitionLists)] ==
                    IF i = 0 THEN Number(0)
                    ELSE Plus(totalQuantity[i - 1], exhibitionLists[i].totalQuantity)
                totalValue[i \in 0..Len(exhibitionLists)] ==
                    IF i = 0 THEN Number(0)
                    ELSE Plus(totalValue[i - 1], valueOf(itemsOf(exhibitionLists[i])))
                allItems[i \in 0..Len(exhibitionLists)] ==
                    IF i = 0 THEN <<>>
                    ELSE allItems[i - 1]
                         \o [ k \in 1..Len(itemsOf(exhibitionLists[i])) |->
                                enrich(exhibitionLists[i], itemsOf(exhibitionLists[i])[k]) ]
            IN  Spread(exhibition,
                       [ orders |-> allItems[Len(exhibitionLists)],
                         totalValue |-> totalValue[Len(exhibitionLists)],
                         totalQuantity |-> totalQuantity[Len(exhibitionLists)],
                         status |-> IF Len(exhibitionLists) > 0 THEN "Active"
                                    ELSE "Pending" ])
        exhibitionsWithOrders ==
            [ i \in 1..Len(exhibitions) |-> withOrders(exhibitions[i]) ]
    IN  /\ last' = IF ~authResult.authorized
                   THEN Refused("GET /api/orders", token, authResult)
                   ELSE Response("GET /api/orders", token, NoArgs, 200,
                                 exhibitionsWithOrders)
        /\ UNCHANGED tables

(***************************************************************************)
(* app/api/product-lists/route.ts and app/api/product-lists/[id]/route.ts  *)
(***************************************************************************)
\* items.reduce((sum, item) => sum + item.quantity, 0)
reduceQuantity(elems) ==
    LET sum[i \in 0..Len(elems)] ==
            IF i = 0 THEN Number(0) ELSE Plus(sum[i - 1], Operand(elems[i], "quantity"))
    IN  sum[Len(elems)]

\* price: item.price || 0
newProductListItem(productListId, item, randomId) ==
    WithProperty(
        WithProperty([ id |-> randomId,
                       productListId |-> productListId,
                       price |-> IF Has(item, "price") THEN item.price ELSE 0 ],
                     "productId", item),
        "quantity", item)

RECURSIVE forEachAddProductListItem(_, _, _, _)
forEachAddProductListItem(table, productListId, elems, randomIds) ==
    IF elems = <<>> THEN table
    ELSE forEachAddProductListItem(
             addProductListItem(table,
                 newProductListItem(productListId, Head(elems), Head(randomIds))),
             productListId, Tail(elems), Tail(randomIds))

GET_product_lists(token) ==
    LET authResult == requireRoles(token, Permission("ORDER_READ"))
    IN  /\ IF ~authResult.authorized
           THEN last' = Refused("GET /api/product-lists", token, authResult)
           ELSE \E exhibitionId \in ProductListQueries :
                LET lists == getProductLists(productLists)
                IN  last' = Response("GET /api/product-lists", token,
                                     [exhibitionId |-> exhibitionId], 200,
                                     IF Truthy(exhibitionId)
                                     THEN Filter(lists,
                                              LAMBDA l : l.exhibitionId = exhibitionId)
                                     ELSE lists)
        /\ UNCHANGED tables

\* The reduce runs before the first insertion: a null item makes it throw
\* with nothing inserted.
POST_product_lists(token) ==
    LET authResult == requireRoles(token, Permission("ORDER_CREATE"))
    IN  IF ~authResult.authorized
        THEN /\ last' = Refused("POST /api/product-lists", token, authResult)
             /\ UNCHANGED tables
        ELSE \E body \in ProductListBodies, randomId \in RandomProductListIds,
                randomIds \in RandomItemIdSeqs :
             LET exhibitionId == Get(body, "exhibitionId")
                 supplierId == Get(body, "supplierId")
             IN  IF ~Truthy(exhibitionId) \/ ~Truthy(supplierId)
                        \/ ~IsArrayProperty(body, "items")
                 THEN /\ last' = Response("POST /api/product-lists", token, body, 400,
                                          [error |-> "Invalid input"])
                      /\ UNCHANGED tables
                 ELSE IF Throws(body.items.elems)
                 THEN /\ last' = Response("POST /api/product-lists", token, body, 500,
                                          [error |-> "Failed to create product list"])
                      /\ UNCHANGED tables
                 ELSE LET newProductList ==
                              [ id |-> randomId,
                                exhibitionId |-> exhibitionId,
                                supplierId |-> supplierId,
                                status |-> "pending",
                                createdAt |-> Now,
                                totalQuantity |-> reduceQuantity(body.items.elems) ]
                      IN  /\ productLists' = addProductList(productLists, newProductList)
                          /\ productListItems' =
                                 forEachAddProductListItem(productListItems,
                                     newProductList.id, body.items.elems, randomIds)
                          /\ last' = Response("POST /api/product-lists", token, body,
                                              201, newProductList)
                          /\ UNCHANGED <<products, exhibitions, exhibitionProducts,
                                         orders>>

GET_product_list(token) ==
    LET authResult == requireRoles(token, Permission("ORDER_READ"))
    IN  /\ IF ~authResult.authorized
           THEN last' = Refused("GET /api/product-lists/[id]", token, authResult)
           ELSE \E id \in ProductListIdInputs :
                LET index == getProductListById(productLists, id)
                    list == productLists[index]
                    items == getProductListItemsByProductListId(productListItems, list.id)
                    enrichedItems ==
                        [ k \in 1..Len(items) |->
                            LET p == getProductById(products, Get(items[k], "productId"))
                            IN  Spread(items[k],
                                       [ productName |-> IF p = 0 THEN Undefined
                                                         ELSE products[p].name,
                                         productSKU |-> IF p = 0 THEN Undefined
                                                        ELSE products[p].id ]) ]
                IN  last' = IF index = 0
                            THEN Response("GET /api/product-lists/[id]", token,
                                          [id |-> id], 404,
                                          [error |-> "Product list not found"])
                            ELSE Response("GET /api/product-lists/[id]", token,
                                          [id |-> id], 200,
                                          Spread(list, [items |-> enrichedItems]))
        /\ UNCHANGED tables

\* The status is written before the items are read: a null item makes the
\* reduce throw with the status already updated.
PUT_product_list(token) ==
    LET authResult == requireRoles(token, Permission("ORDER_UPDATE"))
    IN  IF ~authResult.authorized
        THEN /\ last' = Refused("PUT /api/product-lists/[id]", token, authResult)
             /\ UNCHANGED tables
        ELSE \E update \in ProductListUpdates, randomIds \in RandomItemIdSeqs :
             LET id == update.id
                 body == update.body
                 index == getProductListById(productLists, id)
                 status == Get(body, "status")
                 withStatus ==
                     IF Truthy(status)
                     THEN updateProductList(productLists, id, [status |-> status]).table
                     ELSE productLists
                 elems == IF IsArrayProperty(body, "items") THEN body.items.elems
                          ELSE <<>>
             IN  IF index = 0
                 THEN /\ last' = Response("PUT /api/product-lists/[id]", token, update,
                                          404, [error |-> "Product list not found"])
                      /\ UNCHANGED tables
                 ELSE IF ~IsArrayProperty(body, "items")
                 THEN /\ productLists' = withStatus
                      /\ last' = Response("PUT /api/product-lists/[id]", token, update,
                                          200, [success |-> TRUE])
                      /\ UNCHANGED <<products, exhibitions, exhibitionProducts, orders,
                                     productListItems>>
                 ELSE IF Throws(elems)
                 THEN /\ productLists' = withStatus
                      /\ last' = Response("PUT /api/product-lists/[id]", token, update,
                                          500, [error |-> "Failed to update product list"])
                      /\ UNCHANGED <<products, exhibitions, exhibitionProducts, orders,
                                     productListItems>>
                 ELSE /\ productLists' =
                             updateProductList(withStatus, id,
                                 [totalQuantity |-> reduceQuantity(elems)]).table
                      /\ productListItems' =
                             forEachAddProductListItem(
                                 deleteProductListItemsByProductListId(productListItems,
                                                                       id),
                                 id, elems, randomIds)
                      /\ last' = Response("PUT /api/product-lists/[id]", token, update,
                                          200, [success |-> TRUE])
                      /\ UNCHANGED <<products, exhibitions, exhibitionProducts, orders>>

(***************************************************************************)
(* The specification.  The handlers have no suspension point between their *)
(* first store access and their response, so requests are handled one at a *)
(* time: `last` is the request being answered, and the server takes the    *)
(* next one once the response is sent.                                     *)
(***************************************************************************)
NoRequest == Response("", NoHeader, NoArgs, 0, NoArgs)

\* The handlers that run interleaved and the promises each awaits, in order,
\* between its requireRoles check and its first call of the store: props.params
\* and request.json().  After its last await a handler runs to its response
\* with no further await.
Awaits ==
    ( "GET /api/product-lists/[id]" :> <<"params">>
      @@ "PUT /api/product-lists/[id]" :> <<"params", "json">>
      @@ "POST /api/orders" :> <<"json">>
      @@ "POST /api/exhibitions/approve" :> <<"json">> )

\* The tokens of the interleaved requests: an ADMIN and a VIEWER.
AsyncTokens == {"u1", "u4"}

\* A handler suspended at its await-th promise.
AsyncRequests ==
    UNION { { [op |-> op, token |-> token, await |-> k] :
                token \in AsyncTokens, k \in 1..Len(Awaits[op]) } :
            op \in DOMAIN Awaits }

\* inflight: how many handlers are suspended at each point.
NoneInFlight == [r \in AsyncRequests |-> 0]

\* template: INITIAL_DATA holds what its literal says (AsWritten), or the
\* tables a write has left in it.
AsWritten == [asWritten |-> TRUE]

Init ==
    /\ products = INITIAL_products
    /\ exhibitions = INITIAL_exhibitions
    /\ exhibitionProducts = INITIAL_exhibitionProducts
    /\ orders = INITIAL_orders
    /\ productLists = INITIAL_productLists
    /\ productListItems = INITIAL_productListItems
    /\ last = NoRequest
    /\ inflight = NoneInFlight
    /\ template = AsWritten
    /\ aliased = FALSE
    /\ instance = 1

\* The response is sent.
SendResponse ==
    /\ last # NoRequest
    /\ last' = NoRequest
    /\ UNCHANGED <<tables, inflight, static>>

Handle ==
    /\ last = NoRequest
    /\ \E token \in Tokens :
        \/ GET_products(token)
        \/ POST_products(token)
        \/ GET_product(token)
        \/ PUT_product(token)
        \/ DELETE_product(token)
        \/ GET_exhibitions(token)
        \/ POST_exhibitions(token)
        \/ GET_exhibition_products(token)
        \/ POST_exhibition_products(token)
        \/ GET_approve(token)
        \/ POST_approve(token)
        \/ GET_orders(token)
        \/ POST_orders(token)
        \/ GET_product_lists(token)
        \/ POST_product_lists(token)
        \/ GET_product_list(token)
        \/ PUT_product_list(token)
    /\ Bounded'
    /\ UNCHANGED <<inflight, static>>

Next == Handle \/ SendResponse

Spec == Init /\ [][Next]_vars

(***************************************************************************)
(* The permission evaluator on its own: checkPermission and requireRoles   *)
(* applied to every context, token and capability name, those of no user   *)
(* and of no entry of PERMISSIONS included.                                *)
(***************************************************************************)
ContextInputs ==
    {NullContext}
    \cup { Context(INITIAL_users[i]) : i \in DOMAIN INITIAL_users }
    \cup { Context([id |-> "u9", username |-> "guest", role |-> "GUEST"]) }

CapabilityInputs == DOMAIN PERMISSIONS \cup {"PRODUCT_PURGE"}

CheckPermission(context, cap) ==
    /\ last' = [ op |-> "checkPermission", context |-> context, cap |-> cap,
                 outcome |-> checkPermission(context, Permission(cap)) ]
    /\ UNCHANGED <<tables, inflight, static>>

RequireRoles(token, cap) ==
    LET authResult == requireRoles(token, Permission(cap))
    IN  /\ last' = [ op |-> "requireRoles", token |-> token, cap |-> cap,
                     outcome |-> IF authResult.authorized THEN "authorized"
                                 ELSE authResult.error ]
        /\ UNCHANGED <<tables, inflight, static>>

AuthenticateUser(token) ==
    /\ last' = [ op |-> "authenticateUser", token |-> token,
                 context |-> authenticateUser(token) ]
    /\ UNCHANGED <<tables, inflight, static>>

NextRbac ==
    \/ \E context \in ContextInputs, cap \in CapabilityInputs :
           CheckPermission(context, cap)
    \/ \E token \in Tokens, cap \in CapabilityInputs : RequireRoles(token, cap)
    \/ \E token \in Tokens : AuthenticateUser(token)

SpecRbac == Init /\ [][NextRbac]_vars

(***************************************************************************)
(* SpecAsync: request handlers interleaved at their awaits.  A handler is  *)
(* an async function: it runs from its start to its first await, from an   *)
(* await to the next, and from its last await to its response, each run    *)
(* without interruption (one JavaScript thread); between two runs the runs *)
(* of other handlers take place.                                           *)
(***************************************************************************)
RECURSIVE SumInFlight(_, _)
SumInFlight(f, S) ==
    IF S = {} THEN 0
    ELSE LET r == CHOOSE x \in S : TRUE
         IN  f[r] + SumInFlight(f, S \ {r})

InFlight == SumInFlight(inflight, AsyncRequests)

\* The capability each interleaved handler passes to requireRoles.
AsyncCapability ==
    ( "GET /api/product-lists/[id]" :> "ORDER_READ"
      @@ "PUT /api/product-lists/[id]" :> "ORDER_UPDATE"
      @@ "POST /api/orders" :> "ORDER_CREATE"
      @@ "POST /api/exhibitions/approve" :> "APPROVAL_APPROVE" )

\* A request arrives: the handler runs requireRoles and returns its response
\* when it does not authorize, else suspends at its first await.
Begin(op, token) ==
    LET authResult == requireRoles(token, Permission(AsyncCapability[op]))
        r == [op |-> op, token |-> token, await |-> 1]
    IN  /\ InFlight < MaxInFlight
        /\ UNCHANGED static
        /\ IF ~authResult.authorized
           THEN /\ last' = Refused(op, token, authResult)
                /\ UNCHANGED <<inflight, static>>
           ELSE /\ inflight' = [inflight EXCEPT ![r] = @ + 1]
                /\ UNCHANGED last
        /\ UNCHANGED tables

\* A promise that is not the handler's last resolves: the handler runs to its
\* next await.
Continue(r) ==
    /\ inflight[r] > 0
    /\ r.await < Len(Awaits[r.op])
    /\ UNCHANGED static
    /\ inflight' = [inflight EXCEPT ![r] = @ - 1,
                                    ![[r EXCEPT !.await = @ + 1]] = @ + 1]
    /\ UNCHANGED <<tables, last>>

\* The last promise of a handler resolves: the handler runs to its response.
Resume(r) ==
    /\ inflight[r] > 0
    /\ r.await = Len(Awaits[r.op])
    /\ UNCHANGED static
    /\ inflight' = [inflight EXCEPT ![r] = @ - 1]
    /\ \/ r.op = "GET /api/product-lists/[id]" /\ GET_product_list(r.token)
       \/ r.op = "PUT /api/product-lists/[id]" /\ PUT_product_list(r.token)
       \/ r.op = "POST /api/orders" /\ POST_orders(r.token)
       \/ r.op = "POST /api/exhibitions/approve" /\ POST_approve(r.token)
    /\ Bounded'

\* One run of a handler at a time; the response of a run that ended a handler
\* is sent before the next run.
Run ==
    /\ last = NoRequest
    /\ \/ \E op \in DOMAIN Awaits, token \in AsyncTokens : Begin(op, token)
       \/ \E r \in AsyncRequests : Continue(r)
       \/ \E r \in AsyncRequests : Resume(r)

NextAsync == Run \/ SendResponse

SpecAsync == Init /\ [][NextAsync]_vars

(***************************************************************************)
(* SpecLinkage: an exhibition is created, products are added to it under   *)
(* its internal id as the path parameter, rows are approved or rejected,   *)
(* orders are requested under its external code and its internal id, and   *)
(* product lists are created and updated beside them.                      *)
(***************************************************************************)
\* The path parameter of the requests that add products: the internal id
\* that createExhibition draws.
LinkagePaths == RandomExhibitionIds

\* Orders of one product, keyed by the external code and by the internal id
\* that createExhibition draws.
LinkageOrderBodies ==
    { [exhibitionId |-> e,
       items |-> Arr(<<[productId |-> "456567", quantity |-> 5]>>)] :
        e \in RandomExhibitionCodes \cup RandomExhibitionIds }

\* The bound of SpecLinkage: an exhibition, a row of it and an order of it
\* fit within it.
BoundedLinkage == ChangedRows <= MaxLinkageChangedRows

LinkageAddProducts(token) ==
    /\ requireRoles(token, Permission("EXHIBITION_CREATE")).authorized
    /\ \E exhibitionId \in LinkagePaths, randomIds \in RandomIdSeqs :
           AddExhibitionProducts(token, exhibitionId,
               [products |-> Arr(<<[productId |-> "456567", quantity |-> 1]>>)],
               randomIds)

LinkageCreateOrder(token) ==
    /\ requireRoles(token, Permission("ORDER_CREATE")).authorized
    /\ \E body \in LinkageOrderBodies, randomId \in RandomOrderIds :
           CreateOrder(token, body, randomId)

HandleLinkage ==
    /\ last = NoRequest
    /\ \E token \in {"u1"} :
        \/ POST_exhibitions(token)
        \/ LinkageAddProducts(token)
        \/ POST_approve(token)
        \/ LinkageCreateOrder(token)
        \/ POST_product_lists(token)
        \/ PUT_product_list(token)
    /\ BoundedLinkage'
    /\ UNCHANGED <<inflight, static>>

NextLinkage == HandleLinkage \/ SendResponse

SpecLinkage == Init /\ [][NextLinkage]_vars

(***************************************************************************)
(* SpecStore: the methods of the store called directly, as the code of a   *)
(* route or of another module of the application calls them on the         *)
(* exported singleton.  last is the call, its arguments and what it        *)
(* returned.                                                               *)
(***************************************************************************)
\* null, as a method of the store returns it.
Null == [isNull |-> TRUE]

\* A value a read method returned and its caller holds.  The elements of a
\* returned array, and a returned record, are the row objects of the store
\* themselves: refs gives, for each, the place of the row object in its
\* table, and value the rows as they were returned (and as the caller has
\* written them since).  isArray tells an array from a single record.
Holds(table, refs, value, isArray) ==
    [table |-> table, refs |-> refs, value |-> value, isArray |-> isArray]

\* last of SpecStore: the call, its arguments, what it returned, and the
\* value of a read the caller holds (Null: none).
StoreCall(op, args, result, held) ==
    [op |-> op, args |-> args, result |-> result, held |-> held]

HeldOf(call) == IF Has(call, "held") THEN call.held ELSE Null

\* The places of the rows that Array.filter keeps.
FilterRefs(table, Test(_)) ==
    SelectSeq([i \in 1..Len(table) |-> i], LAMBDA i : Test(table[i]))

\* The rows at the places refs: the array filter or [...] builds.
RowsAt(table, refs) == [k \in DOMAIN refs |-> table[refs[k]]]

\* What the holder of h reads through it when the two tables are ps and eps.
ViewOf(h, ps, eps) ==
    RowsAt(IF h.table = "products" THEN ps ELSE eps, h.refs)

\* What an update method returns: the row at the index, or null.
Returned(r) == IF r.index = 0 THEN Null ELSE r.table[r.index]

\* The arguments of updateProduct: the id of a row or of none, and a partial
\* product, one of which carries an id.
StoreProductUpdates ==
    { [id |-> id, updates |-> u] :
        id \in {"456567", "456568", "nope"},
        u \in { [name |-> "Maggi Masala"],
                [name |-> "Bru Gold", isApproved |-> TRUE],
                [id |-> "456568"] } }

StoreExhibitionUpdates ==
    { [id |-> id, updates |-> u] :
        id \in {"oxurt5ywn", "nope"},
        u \in { [status |-> "ACTIVE"],
                [name |-> "renamed", status |-> "COMPLETED"],
                [description |-> "added"] } }

StoreProductListUpdates ==
    { [id |-> id, updates |-> u] :
        id \in {"a1e8x088e", "nope"},
        u \in { [status |-> "approved"],
                [totalQuantity |-> Number(7)],
                [status |-> "rejected", totalQuantity |-> Number(0)] } }

UpdateProduct(args) ==
    LET r == updateProduct(products, args.id, args.updates)
    IN  /\ products' = r.table
        /\ last' = StoreCall("updateProduct", args, Returned(r), Null)
        /\ UNCHANGED <<exhibitions, exhibitionProducts, orders, productLists,
                       productListItems>>

UpdateExhibition(args) ==
    LET r == updateExhibition(exhibitions, args.id, args.updates)
    IN  /\ exhibitions' = r.table
        /\ last' = StoreCall("updateExhibition", args, Returned(r), Null)
        /\ UNCHANGED <<products, exhibitionProducts, orders, productLists,
                       productListItems>>

UpdateProductList(args) ==
    LET r == updateProductList(productLists, args.id, args.updates)
    IN  /\ productLists' = r.table
        /\ last' = StoreCall("updateProductList", args, Returned(r), Null)
        /\ UNCHANGED <<products, exhibitions, exhibitionProducts, orders,
                       productListItems>>

\* The bound of SpecStore.
BoundedStore == ChangedRows <= MaxStoreChangedRows

StoreProductIds == {"456567", "nope"}

StoreExhibitionIds == {"EX-2941", "EX-0000"}

StoreExhibitionProductIds == {"cszttszpu", "nope"}

\* getProducts: [...this.data.products], a new array of the same row objects.
GetProducts ==
    LET refs == FilterRefs(products, LAMBDA p : TRUE)
    IN  /\ last' = StoreCall("getProducts", NoArgs, getProducts(products),
                             Holds("products", refs, RowsAt(products, refs), TRUE))
        /\ UNCHANGED tables

\* getProductById: Array.find, the row object itself or undefined.
GetProductById(id) ==
    LET index == getProductById(products, id)
    IN  /\ last' = IF index = 0
                   THEN StoreCall("getProductById", [id |-> id], Undefined, Null)
                   ELSE StoreCall("getProductById", [id |-> id], products[index],
                                  Holds("products", <<index>>, <<products[index]>>,
                                        FALSE))
        /\ UNCHANGED tables

GetExhibitionProductsByExhibitionId(exhibitionId) ==
    LET refs == FilterRefs(exhibitionProducts,
                           LAMBDA ep : ep.exhibitionId = exhibitionId)
    IN  /\ last' = StoreCall("getExhibitionProductsByExhibitionId",
                             [exhibitionId |-> exhibitionId],
                             getExhibitionProductsByExhibitionId(exhibitionProducts,
                                                                 exhibitionId),
                             Holds("exhibitionProducts", refs,
                                   RowsAt(exhibitionProducts, refs), TRUE))
        /\ UNCHANGED tables

GetPendingExhibitionProducts ==
    LET refs == FilterRefs(exhibitionProducts, LAMBDA ep : ep.status = "pending")
    IN  /\ last' = StoreCall("getPendingExhibitionProducts", NoArgs,
                             getPendingExhibitionProducts(exhibitionProducts),
                             Holds("exhibitionProducts", refs,
                                   RowsAt(exhibitionProducts, refs), TRUE))
        /\ UNCHANGED tables

GetApprovedExhibitionProducts(exhibitionId) ==
    LET refs == FilterRefs(exhibitionProducts,
                           LAMBDA ep : /\ ep.exhibitionId = exhibitionId
                                       /\ ep.status = "approved")
    IN  /\ last' = StoreCall("getApprovedExhibitionProducts",
                             [exhibitionId |-> exhibitionId],
                             getApprovedExhibitionProducts(exhibitionProducts,
                                                           exhibitionId),
                             Holds("exhibitionProducts", refs,
                                   RowsAt(exhibitionProducts, refs), TRUE))
        /\ UNCHANGED tables

\* approveExhibitionProduct / rejectExhibitionProduct: Array.find and an
\* assignment to ep.status, on the row object in place; the row or null is
\* returned.  A value the caller holds stays held.
SetStatusInPlace(op, id, status) ==
    LET index == FindIndex(exhibitionProducts, LAMBDA ep : ep.id = id)
    IN  IF index = 0
        THEN /\ last' = StoreCall(op, [id |-> id], Null, HeldOf(last))
             /\ UNCHANGED tables
        ELSE /\ exhibitionProducts' =
                    [exhibitionProducts EXCEPT ![index].status = status]
             /\ last' = StoreCall(op, [id |-> id], exhibitionProducts'[index],
                                  HeldOf(last))
             /\ UNCHANGED <<products, exhibitions, orders, productLists,
                            productListItems>>

ApproveExhibitionProduct(id) ==
    SetStatusInPlace("approveExhibitionProduct", id, "approved")

RejectExhibitionProduct(id) ==
    SetStatusInPlace("rejectExhibitionProduct", id, "rejected")

\* The caller assigns to a property of a record it holds, the k-th of an
\* array or the record itself: product.name = ..., ep.status = 'approved'.
\* The record is the row object of the store.
CallerWritesRecord(k) ==
    LET h == HeldOf(last)
    IN  /\ h # Null
        /\ k \in DOMAIN h.refs
        /\ IF h.table = "products"
           THEN /\ products' = [products EXCEPT ![h.refs[k]].name = "written"]
                /\ last' = StoreCall("caller writes record", [k |-> k], Undefined,
                                     [h EXCEPT !.value[k].name = "written"])
                /\ UNCHANGED <<exhibitions, exhibitionProducts, orders, productLists,
                               productListItems>>
           ELSE /\ exhibitionProducts' =
                       [exhibitionProducts EXCEPT ![h.refs[k]].status = "approved"]
                /\ last' = StoreCall("caller writes record", [k |-> k], Undefined,
                                     [h EXCEPT !.value[k].status = "approved"])
                /\ UNCHANGED <<products, exhibitions, orders, productLists,
                               productListItems>>

\* The caller removes the last element of an array it holds: returned.pop().
\* The array is not the array of the store.
CallerPops ==
    LET h == HeldOf(last)
    IN  /\ h # Null
        /\ h.isArray
        /\ h.refs # <<>>
        /\ last' = StoreCall("caller pops", NoArgs, h.value[Len(h.value)],
                             [h EXCEPT !.refs = SubSeq(h.refs, 1, Len(h.refs) - 1),
                                       !.value = SubSeq(h.value, 1, Len(h.value) - 1)])
        /\ UNCHANGED tables

NextStore ==
    /\ \/ \E args \in StoreProductUpdates : UpdateProduct(args)
       \/ \E args \in StoreExhibitionUpdates : UpdateExhibition(args)
       \/ \E args \in StoreProductListUpdates : UpdateProductList(args)
       \/ GetProducts
       \/ \E id \in StoreProductIds : GetProductById(id)
       \/ \E exhibitionId \in StoreExhibitionIds :
              GetExhibitionProductsByExhibitionId(exhibitionId)
       \/ GetPendingExhibitionProducts
       \/ \E exhibitionId \in StoreExhibitionIds :
              GetApprovedExhibitionProducts(exhibitionId)
       \/ \E id \in StoreExhibitionProductIds : ApproveExhibitionProduct(id)
       \/ \E id \in StoreExhibitionProductIds : RejectExhibitionProduct(id)
       \/ \E k \in 1..Len(products) : CallerWritesRecord(k)
       \/ CallerPops
    /\ BoundedStore'
    /\ UNCHANGED <<inflight, static>>

SpecStore == Init /\ [][NextStore]_vars

(***************************************************************************)
(* SpecMockDB: rows are added to the exhibition products of the store and  *)
(* approved or rejected by direct calls, and the gate is asked about a     *)
(* pair of an exhibition and a product.                                    *)
(***************************************************************************)
\* The pairs the gate is asked about: one whose seeded row is approved, one
\* whose seeded row is pending, and one of no row.
StorePairs ==
    { [exhibitionId |-> "EX-2941", productId |-> p] :
        p \in {"456567", "456568", "900001"} }

\* The ids of the rows that are approved and rejected: a seeded approved
\* row and the added row.
StoreStatusIds == {"d7gyiq52d"} \cup RandomExhibitionProductIds

BoundedMockDB == ChangedRows <= MaxMockDBChangedRows

\* addExhibitionProduct: push, and the row is returned.
AddExhibitionProduct(exhibitionProduct) ==
    /\ exhibitionProducts' = addExhibitionProduct(exhibitionProducts, exhibitionProduct)
    /\ last' = StoreCall("addExhibitionProduct", exhibitionProduct, exhibitionProduct,
                         Null)
    /\ UNCHANGED <<products, exhibitions, orders, productLists, productListItems>>

IsProductApprovedForExhibition(pair) ==
    /\ last' = StoreCall("isProductApprovedForExhibition", pair,
                         isProductApprovedForExhibition(exhibitionProducts,
                             pair.exhibitionId, pair.productId),
                         Null)
    /\ UNCHANGED tables

\* The literal of INITIAL_DATA, table by table in the order of `tables`.
INITIAL_DATA ==
    <<INITIAL_products, INITIAL_exhibitions, INITIAL_exhibitionProducts,
      INITIAL_orders, INITIAL_productLists, INITIAL_productListItems>>

TemplateData(t) == IF t.asWritten THEN INITIAL_DATA ELSE t.data

\* JSON.parse(JSON.stringify(data)): new objects all the way down.  Strings,
\* finite numbers, booleans and the arrays and objects of them come back as
\* they were; NaN, which only a totalQuantity can be, comes back as null.
JSONClone(data) ==
    LET lists == data[5]
    IN  [data EXCEPT ![5] =
            [i \in DOMAIN lists |->
                IF lists[i].totalQuantity.isNaN
                THEN [lists[i] EXCEPT !.totalQuantity = Null]
                ELSE lists[i]]]

\* The constructor: this.data = JSON.parse(JSON.stringify(INITIAL_DATA)).
constructor(data) == [data |-> JSONClone(data), aliased |-> FALSE]

\* reset that assigns INITIAL_DATA itself to this.data.
resetSharing(data) == [data |-> data, aliased |-> TRUE]

\* reset: this.data = JSON.parse(JSON.stringify(INITIAL_DATA)).
reset(data) == [data |-> JSONClone(data), aliased |-> FALSE]

\* getInstance: the object in MockDB.instance, constructed when there is
\* none (0).  Objects are numbered as they are constructed.
getInstance(static_instance) ==
    IF static_instance = 0
    THEN [instance |-> static_instance + 1, constructed |-> TRUE]
    ELSE [instance |-> static_instance, constructed |-> FALSE]

\* The row objects a caller holds are rows of the store no longer.
Detached(h) == IF h = Null THEN Null ELSE Holds(h.table, <<>>, h.value, h.isArray)

\* this.data = data
SetData(data) ==
    /\ products' = data[1]
    /\ exhibitions' = data[2]
    /\ exhibitionProducts' = data[3]
    /\ orders' = data[4]
    /\ productLists' = data[5]
    /\ productListItems' = data[6]

Reset ==
    LET r == reset(TemplateData(template))
    IN  /\ SetData(r.data)
        /\ aliased' = r.aliased
        /\ last' = StoreCall("reset", NoArgs, Undefined, Detached(HeldOf(last)))
        /\ UNCHANGED instance

GetInstance ==
    LET r == getInstance(instance)
        c == constructor(TemplateData(template))
    IN  /\ instance' = r.instance
        /\ IF r.constructed
           THEN SetData(c.data) /\ aliased' = c.aliased
           ELSE UNCHANGED <<tables, aliased>>
        /\ last' = StoreCall("getInstance", NoArgs, r.instance,
                             IF r.constructed THEN Detached(HeldOf(last))
                             ELSE HeldOf(last))

\* A write to the data of the instance is a write to INITIAL_DATA when the
\* two are one object.
NextMockDB ==
    /\ \/ /\ \/ \E pair \in StorePairs, randomId \in RandomExhibitionProductIds :
                    AddExhibitionProduct(
                        newExhibitionProduct(pair.exhibitionId,
                            [productId |-> pair.productId, quantity |-> 1],
                            randomId))
             \/ \E id \in StoreStatusIds : ApproveExhibitionProduct(id)
             \/ \E id \in StoreStatusIds : RejectExhibitionProduct(id)
             \/ \E pair \in StorePairs : IsProductApprovedForExhibition(pair)
             \/ \E exhibitionId \in StoreExhibitionIds :
                    GetExhibitionProductsByExhibitionId(exhibitionId)
             \/ \E args \in StoreProductUpdates : UpdateProduct(args)
          /\ UNCHANGED <<aliased, instance>>
       \/ Reset
       \/ GetInstance
    /\ template' = IF ~aliased' THEN template
                   ELSE IF tables' = INITIAL_DATA THEN AsWritten
                   ELSE [asWritten |-> FALSE, data |-> tables']
    /\ BoundedMockDB'
    /\ UNCHANGED inflight

SpecMockDB == Init /\ [][NextMockDB]_vars

(***************************************************************************)
(* Properties.                                                             *)
(***************************************************************************)
\* The step is the answer of handler `op` to a request it authorized: the
\* answer carries the request's arguments.
Answered(op) == last'.op = op /\ last'.status \notin {401, 403}

\* The arguments of createOrder: an exhibition code and a list of items.
NamesExhibitionAndItems(body) ==
    /\ Has(body, "exhibitionId")
    /\ Has(body, "items")
    /\ body.items.isArray
    /\ \A i \in DOMAIN body.items.elems : Has(body.items.elems[i], "productId")

RowsOfPair(table, exhibitionId, productId) ==
    { i \in DOMAIN table : /\ table[i].exhibitionId = exhibitionId
                           /\ table[i].productId = productId }

ApprovedRowExists(table, exhibitionId, productId) ==
    \E i \in RowsOfPair(table, exhibitionId, productId) : table[i].status = "approved"

\* C1 (approval gate): createOrder(E, items) succeeds if and only if an
\* approved ExhibitionProduct row (E, P) exists for the product P of every
\* item at the time of the call; in every other case it is a validation
\* failure (400) and the orders table is unchanged.
ApprovalGate ==
    [][ Answered("POST /api/orders") /\ NamesExhibitionAndItems(last'.args) =>
          LET body == last'.args
              elems == body.items.elems
          IN  /\ (last'.status = 201) <=>
                    \A i \in DOMAIN elems :
                        ApprovedRowExists(exhibitionProducts, body.exhibitionId,
                                          elems[i].productId)
              /\ last'.status # 201 => last'.status = 400 /\ orders' = orders
      ]_vars

WorkflowOrdering ==
    [][ /\ Answered("POST /api/orders")
        /\ NamesExhibitionAndItems(last'.args)
        /\ DOMAIN last'.args = {"exhibitionId", "items"}
        /\ Len(last'.args.items.elems) = 1
        =>
          LET body == last'.args
              rows == RowsOfPair(exhibitionProducts, body.exhibitionId,
                                 body.items.elems[1].productId)
          IN  \A i \in rows :
                /\ exhibitionProducts[i].status = "pending" => last'.status = 400
                /\ exhibitionProducts[i].status = "approved" =>
                      /\ last'.status = 201
                      /\ last'.body.status = "DRAFT"
                      /\ last'.body.items = body.items
      ]_vars

\* The table of section 4.1 of the specification, by capability, and the
\* names the code gives its capabilities and roles.
Section41 ==
    [ ProductCreate    |-> {"ADMIN", "MANAGER", "OPERATOR"},
      ProductRead      |-> {"ADMIN", "MANAGER", "OPERATOR", "VIEWER"},
      ProductUpdate    |-> {"ADMIN", "MANAGER"},
      ProductDelete    |-> {"ADMIN"},
      ExhibitionCreate |-> {"ADMIN", "MANAGER"},
      ExhibitionRead   |-> {"ADMIN", "MANAGER", "OPERATOR", "VIEWER"},
      ExhibitionUpdate |-> {"ADMIN", "MANAGER"},
      ApprovalApprove  |-> {"ADMIN", "MANAGER"},
      ApprovalRead     |-> {"ADMIN", "MANAGER", "OPERATOR", "VIEWER"},
      OrderCreate      |-> {"ADMIN", "MANAGER", "OPERATOR"},
      OrderRead        |-> {"ADMIN", "MANAGER", "OPERATOR", "VIEWER"},
      OrderUpdate      |-> {"ADMIN", "MANAGER"} ]

CapabilityName ==
    [ PRODUCT_CREATE    |-> "ProductCreate",
      PRODUCT_READ      |-> "ProductRead",
      PRODUCT_UPDATE    |-> "ProductUpdate",
      PRODUCT_DELETE    |-> "ProductDelete",
      EXHIBITION_CREATE |-> "ExhibitionCreate",
      EXHIBITION_READ   |-> "ExhibitionRead",
      EXHIBITION_UPDATE |-> "ExhibitionUpdate",
      APPROVAL_APPROVE  |-> "ApprovalApprove",
      APPROVAL_READ     |-> "ApprovalRead",
      ORDER_CREATE      |-> "OrderCreate",
      ORDER_READ        |-> "OrderRead",
      ORDER_UPDATE      |-> "OrderUpdate" ]

RoleName ==
    [ ADMIN |-> "ADMIN", MANAGER |-> "MANAGER", USER |-> "OPERATOR",
      VIEWER |-> "VIEWER" ]

\* C4 (permission matrix): for each of the four roles and each of the twelve
\* capabilities, checkPermission (hasRole over PERMISSIONS) gives exactly
\* the boolean of the table of section 4.1.
PermissionMatrix ==
    /\ last.op = "checkPermission"
    /\ ~last.context.isNull
    /\ last.context.user.role \in DOMAIN RoleName
    /\ last.cap \in DOMAIN CapabilityName
    => last.outcome =
          IF RoleName[last.context.user.role] \in Section41[CapabilityName[last.cap]]
          THEN "true" ELSE "false"

\* The evaluator has denied ProductUpdate to the OPERATOR and allowed
\* ProductCreate to it.
PermissionMatrixWitness ==
    /\ last.op = "checkPermission"
    /\ ~last.context.isNull
    /\ last.context.user.role = "USER"
    /\ last.cap = "PRODUCT_UPDATE"
    /\ last.outcome = "false"
    /\ checkPermission(last.context, Permission("PRODUCT_CREATE")) = "true"

\* C5 (fail-closed evaluation): for a role that is none of the four, or a
\* capability with no entry in PERMISSIONS, the evaluator gives deny as a
\* value; it does not throw, in checkPermission or in requireRoles.
FailClosed ==
    /\ /\ last.op = "checkPermission"
       /\ ~last.context.isNull
       /\ \/ last.context.user.role \notin UserRole
          \/ last.cap \notin DOMAIN PERMISSIONS
       => last.outcome = "false"
    /\ last.op = "requireRoles" => last.outcome # "TypeError"

\* The operations of section 6 of the specification that the handlers
\* implement, with the capability each requires.
OperationCapability ==
    ( "GET /api/products" :> "ProductRead"
      @@ "POST /api/products" :> "ProductCreate"
      @@ "GET /api/products/[id]" :> "ProductRead"
      @@ "PUT /api/products/[id]" :> "ProductUpdate"
      @@ "DELETE /api/products/[id]" :> "ProductDelete"
      @@ "GET /api/exhibitions" :> "ExhibitionRead"
      @@ "POST /api/exhibitions" :> "ExhibitionCreate"
      @@ "GET /api/exhibitions/[id]/products" :> "ExhibitionRead"
      @@ "POST /api/exhibitions/[id]/products" :> "ExhibitionCreate"
      @@ "GET /api/exhibitions/approve" :> "ApprovalRead"
      @@ "POST /api/exhibitions/approve" :> "ApprovalApprove"
      @@ "GET /api/orders" :> "OrderRead"
      @@ "POST /api/orders" :> "OrderCreate"
      @@ "GET /api/product-lists" :> "OrderRead"
      @@ "POST /api/product-lists" :> "OrderCreate"
      @@ "GET /api/product-lists/[id]" :> "OrderRead"
      @@ "PUT /api/product-lists/[id]" :> "OrderUpdate" )

\* C6 (denied requests have no effect): a request of a resolved actor whose
\* role is not in the allow-set of the operation's capability is answered
\* Forbidden (403) before its arguments are read, and every table is left
\* as it was.
DeniedNoEffect ==
    [][ /\ last'.op \in DOMAIN OperationCapability
        /\ ~authenticateUser(last'.token).isNull
        /\ RoleName[authenticateUser(last'.token).user.role]
              \notin Section41[OperationCapability[last'.op]]
        => /\ last'.status = 403
           /\ last'.args = NoArgs
           /\ tables' = tables
      ]_vars

\* The VIEWER has asked for the deletion of a product and got 403.
DeniedNoEffectWitness ==
    /\ last.op = "DELETE /api/products/[id]"
    /\ last.token = "u4"
    /\ last.status = 403
    /\ products = INITIAL_products

\* C7 (deleteProduct): a deletion by the ADMIN succeeds exactly when a
\* product of that id existed; after a success no product of that id is
\* found; for an absent id it is not-found (404) and the products table is
\* unchanged.
DeleteProductContract ==
    [][ Answered("DELETE /api/products/[id]") =>
          LET id == last'.args.id
          IN  /\ (last'.status = 200) <=> (\E i \in DOMAIN products : products[i].id = id)
              /\ last'.status = 200 => getProductById(products', id) = 0
              /\ last'.status # 200 => last'.status = 404 /\ products' = products
      ]_vars

\* C8 (default states): every product a step inserts has isApproved false,
\* and every ExhibitionProduct row a step inserts has status pending,
\* whatever the request supplies and whatever the product's own flag.
DefaultStates ==
    [][ /\ \A i \in (Len(products) + 1)..Len(products') :
              products'[i].isApproved = FALSE
        /\ last'.op = "POST /api/products" /\ last'.status = 201 =>
              /\ Len(products') = Len(products) + 1
              /\ last'.body = products'[Len(products')]
        /\ \A i \in (Len(exhibitionProducts) + 1)..Len(exhibitionProducts') :
              exhibitionProducts'[i].status = "pending"
      ]_vars

\* A row has been added for an entry that asked for status approved, and a
\* product has its row added although its own flag is not set.
DefaultStatesWitness ==
    /\ last.op = "POST /api/exhibitions/[id]/products"
    /\ last.status = 201
    /\ Has(last.args.body, "products")
    /\ \E i \in DOMAIN last.args.body.products.elems :
           Get(last.args.body.products.elems[i], "status") = "approved"
    /\ Len(exhibitionProducts) = Len(INITIAL_exhibitionProducts) + 1
    /\ exhibitionProducts[Len(exhibitionProducts)].productId = "456568"
    /\ exhibitionProducts[Len(exhibitionProducts)].status = "pending"

\* C9 (no re-pend): a row whose status is approved or rejected stays in its
\* place in the table and no step gives it the status pending.
NoRePend ==
    [][ \A i \in DOMAIN exhibitionProducts :
          exhibitionProducts[i].status \in {"approved", "rejected"} =>
             /\ i \in DOMAIN exhibitionProducts'
             /\ exhibitionProducts'[i].id = exhibitionProducts[i].id
             /\ exhibitionProducts'[i].status # "pending"
      ]_vars

\* The status pending has been asked for a row that is approved, and the
\* request has been refused as invalid.
NoRePendWitness ==
    /\ last.op = "POST /api/exhibitions/approve"
    /\ last.status = 400
    /\ last.args = [id |-> "cszttszpu", status |-> "pending"]
    /\ exhibitionProducts[2].id = "cszttszpu"
    /\ exhibitionProducts[2].status = "approved"

\* C10 (re-approval is idempotent): setApproval(id, approved) on a row that
\* is approved already answers 200 with the row and leaves every table as it
\* was.
ReApprovalIdempotent ==
    [][ Answered("POST /api/exhibitions/approve") /\ last'.args.status = "approved" =>
          LET id == last'.args.id
              index == FindIndex(exhibitionProducts, LAMBDA ep : ep.id = id)
          IN  index # 0 /\ exhibitionProducts[index].status = "approved" =>
                /\ last'.status = 200
                /\ last'.body = exhibitionProducts[index]
                /\ tables' = tables
      ]_vars

\* The seeded approved row, which no request of the model rejects, has been
\* approved again.
ReApprovalIdempotentWitness ==
    /\ last.op = "POST /api/exhibitions/approve"
    /\ last.status = 200
    /\ last.args.id = "d7gyiq52d"
    /\ last.body = INITIAL_exhibitionProducts[1]
    /\ exhibitionProducts[1] = INITIAL_exhibitionProducts[1]

\* C11 (setApproval outcomes): a status outside {approved, rejected} is
\* answered 400, whatever the id; a valid status with an id of no row is
\* answered 404; both leave the ExhibitionProduct table as it was; a valid
\* status with the id of a row sets the status of that row and of no other,
\* changes no other field, and answers 200 with the updated row.
SetApprovalOutcomes ==
    [][ Answered("POST /api/exhibitions/approve") =>
          LET id == last'.args.id
              status == last'.args.status
              index == FindIndex(exhibitionProducts, LAMBDA ep : ep.id = id)
          IN  IF status \notin {"approved", "rejected"}
              THEN last'.status = 400 /\ exhibitionProducts' = exhibitionProducts
              ELSE IF index = 0
              THEN last'.status = 404 /\ exhibitionProducts' = exhibitionProducts
              ELSE /\ last'.status = 200
                   /\ exhibitionProducts' =
                          [exhibitionProducts EXCEPT ![index].status = status]
                   /\ last'.body = exhibitionProducts'[index]
      ]_vars

\* A request with an invalid status and an id of no row has been answered
\* 400, not 404, on a table in which a row was rejected before.
SetApprovalOutcomesWitness ==
    /\ last.op = "POST /api/exhibitions/approve"
    /\ last.status = 400
    /\ last.args = [id |-> "nope", status |-> "pending"]
    /\ last.body.error = "Invalid status"
    /\ exhibitionProducts[2].status = "rejected"

\* C12 (totalQuantity invariant): in every reachable state the totalQuantity
\* of each ProductList is a number, every ProductListItem attached to the
\* list has a quantity, and the totalQuantity equals the sum of these
\* quantities.
TotalQuantityInvariant ==
    \A i \in 1..Len(productLists) :
        LET list == productLists[i]
            attached == getProductListItemsByProductListId(productListItems, list.id)
            sum[j \in 0..Len(attached)] ==
                IF j = 0 THEN 0 ELSE sum[j - 1] + attached[j].quantity
        IN  /\ \A j \in 1..Len(attached) : Has(attached[j], "quantity")
            /\ ~list.totalQuantity.isNaN
            /\ list.totalQuantity.value = sum[Len(attached)]

\* C13 (Unauthenticated): a request whose x-user-id names no user of the
\* users table is answered 401 Unauthorized by every operation, with the
\* request's body and parameters unread, and leaves every table unchanged.
UnauthenticatedRefused ==
    [][ ( /\ last = NoRequest
          /\ last' # NoRequest
          /\ last'.token # NoHeader
          /\ getUserById(last'.token) = <<>> )
        => /\ last'.status = 401
           /\ last'.body = [error |-> "Unauthorized"]
           /\ last'.args = NoArgs
           /\ tables' = tables
      ]_vars

\* The unknown id u9 has been refused the deletion of a product after some
\* other request changed the store.
UnauthenticatedRefusedWitness ==
    /\ last.op = "DELETE /api/products/[id]"
    /\ last.token = "u9"
    /\ last.status = 401
    /\ tables # <<INITIAL_products, INITIAL_exhibitions, INITIAL_exhibitionProducts,
                  INITIAL_orders, INITIAL_productLists, INITIAL_productListItems>>

RoleOfToken(token) ==
    LET context == authenticateUser(token)
    IN  IF context.isNull THEN Undefined ELSE context.user.role

\* C15 (VIEWER is read-only): every step of the handling of a request of an
\* actor with role VIEWER, the handler's and the sending of its response,
\* leaves every table as it was; so a run of VIEWER requests only, however
\* interleaved, keeps every table at its initial value.
ViewerReadOnly ==
    [][ ( \/ last' # NoRequest /\ RoleOfToken(last'.token) = "VIEWER"
          \/ last # NoRequest /\ RoleOfToken(last.token) = "VIEWER" )
        => tables' = tables
      ]_vars

\* The VIEWER u4, who may read the products, has been refused the creation
\* of an order.
ViewerReadOnlyWitness ==
    /\ last.op = "POST /api/orders"
    /\ last.token = "u4"
    /\ last.status = 403
    /\ requireRoles("u4", Permission("PRODUCT_READ")).authorized

\* C16 (only ADMIN and MANAGER change approval): every step of the handling
\* of a request of an actor with role USER or VIEWER, a request with no
\* x-user-id included, leaves the ExhibitionProduct table as it was: no row
\* is added, removed or given another status, so the approved pairs of a run
\* of such requests are those of its first state.
OnlyAdminManagerChangeApproval ==
    [][ ( \/ last' # NoRequest /\ RoleOfToken(last'.token) \in {"USER", "VIEWER"}
          \/ last # NoRequest /\ RoleOfToken(last.token) \in {"USER", "VIEWER"} )
        => exhibitionProducts' = exhibitionProducts
      ]_vars

\* A request with no x-user-id has been refused the approval of a pending
\* row, which is still pending.
OnlyAdminManagerChangeApprovalWitness ==
    /\ last.op = "POST /api/exhibitions/approve"
    /\ last.token = NoHeader
    /\ last.status = 403
    /\ \E i \in DOMAIN exhibitionProducts : exhibitionProducts[i].status = "pending"

\* An update of `before` by id and partial gave `after` and returned
\* `result`: with no row of the id, null and the same table; otherwise the
\* first row of the id has the partial's value in each field of the partial
\* and its own value in every other field, every other row is as it was, and
\* the result is the row.
MergedInto(before, after, id, updates, result) ==
    IF \A i \in DOMAIN before : before[i].id # id
    THEN result = Null /\ after = before
    ELSE LET index == CHOOSE i \in DOMAIN before :
                          /\ before[i].id = id
                          /\ \A j \in 1..(i - 1) : before[j].id # id
         IN  /\ DOMAIN after = DOMAIN before
             /\ \A i \in DOMAIN before \ {index} : after[i] = before[i]
             /\ DOMAIN after[index] = DOMAIN before[index] \cup DOMAIN updates
             /\ \A f \in DOMAIN updates : after[index][f] = updates[f]
             /\ \A f \in DOMAIN before[index] \ DOMAIN updates :
                    after[index][f] = before[index][f]
             /\ result = after[index]

\* C17 (update merge): updateProduct, updateExhibition and updateProductList
\* on the id of a row change the fields of the partial in that row, leave its
\* other fields, the other rows and the other tables as they were, and return
\* the row; on an id of no row they return null and change nothing.
UpdateMerge ==
    [][ /\ last'.op = "updateProduct"
           => /\ MergedInto(products, products', last'.args.id,
                            last'.args.updates, last'.result)
              /\ UNCHANGED <<exhibitions, exhibitionProducts, orders, productLists,
                             productListItems>>
        /\ last'.op = "updateExhibition"
           => /\ MergedInto(exhibitions, exhibitions', last'.args.id,
                            last'.args.updates, last'.result)
              /\ UNCHANGED <<products, exhibitionProducts, orders, productLists,
                             productListItems>>
        /\ last'.op = "updateProductList"
           => /\ MergedInto(productLists, productLists', last'.args.id,
                            last'.args.updates, last'.result)
              /\ UNCHANGED <<products, exhibitions, exhibitionProducts, orders,
                             productListItems>>
      ]_vars

\* updateProduct has renamed the first of two products of id 456568 and
\* returned it; the second keeps its name.
UpdateMergeWitness ==
    /\ last.op = "updateProduct"
    /\ last.args = [id |-> "456568", updates |-> [name |-> "Maggi Masala"]]
    /\ products[1] = [id |-> "456568", name |-> "Maggi Masala", isApproved |-> TRUE]
    /\ products[2] = [id |-> "456568", name |-> "Bru", isApproved |-> FALSE]
    /\ last.result = products[1]

\* No two rows of the table have the same id.
UniqueIdsIn(table) ==
    \A i, j \in DOMAIN table : table[i].id = table[j].id => i = j

\* C18 (identifier uniqueness): in every reachable state no two rows of a
\* table have the same id, in each of the tables of products, exhibitions,
\* exhibition products, orders, product lists and product list items.
IdentifierUniqueness ==
    /\ UniqueIdsIn(products)
    /\ UniqueIdsIn(exhibitions)
    /\ UniqueIdsIn(exhibitionProducts)
    /\ UniqueIdsIn(orders)
    /\ UniqueIdsIn(productLists)
    /\ UniqueIdsIn(productListItems)

\* One (exhibition, product) pair has at most one row in the table.
UniquePairsIn(table) ==
    \A i, j \in DOMAIN table :
        /\ table[i].exhibitionId = table[j].exhibitionId
        /\ table[i].productId = table[j].productId
        => i = j

\* C19 (pair uniqueness, I4): in every reachable state there is at most one
\* ExhibitionProduct row for an exhibition code and a product id.
PairUniqueness == UniquePairsIn(exhibitionProducts)

\* C20 (read snapshots): a caller that writes a record it got from a read,
\* or removes an element of an array it got, leaves every table of the store
\* as it was; and a mutation of the store leaves what the holder of an
\* earlier read sees through it equal to the value that was returned.
ReadSnapshots ==
    [][ /\ last'.op \in {"caller writes record", "caller pops"}
           => tables' = tables
        /\ ( /\ last'.op \in {"approveExhibitionProduct", "rejectExhibitionProduct"}
             /\ HeldOf(last) # Null )
           => ViewOf(HeldOf(last), products', exhibitionProducts')
                  = HeldOf(last).value
      ]_vars

\* The totalQuantity of each list is the reduce of the quantities of the
\* items attached to it, as a completed replacement leaves it.
ListsAgree(lists, items) ==
    \A i \in DOMAIN lists :
        lists[i].totalQuantity =
            reduceQuantity(getProductListItemsByProductListId(items, lists[i].id))

\* C21 (no partially-applied write is observable): with handlers interleaved
\* at their awaits, after every run the totalQuantity of each product list
\* agrees with the items attached to it, a read of a product list answers
\* with a totalQuantity that agrees with the items of the answer, and an
\* order that passed the validation loop is inserted in a state in which
\* each of its items is approved for its exhibition.
NoPartialWrite ==
    [][ /\ ListsAgree(productLists', productListItems')
        /\ ( last'.op = "GET /api/product-lists/[id]" /\ last'.status = 200 )
           => last'.body.totalQuantity = reduceQuantity(last'.body.items)
        /\ ( /\ last'.op = "POST /api/orders"
             /\ last'.status = 201
             /\ Validated(last'.args) )
           => \A k \in DOMAIN last'.args.items.elems :
                  isProductApprovedForExhibition(
                      exhibitionProducts', last'.args.exhibitionId,
                      last'.args.items.elems[k].productId)
      ]_vars

\* A read of the list a1e8x088e has been answered with its replaced items
\* while another replacement is suspended at its request.json().
NoPartialWriteWitness ==
    /\ last.op = "GET /api/product-lists/[id]"
    /\ last.status = 200
    /\ last.body.id = "a1e8x088e"
    /\ Len(last.body.items) = 1
    /\ last.body.totalQuantity # Number(12)
    /\ inflight[[op |-> "PUT /api/product-lists/[id]", token |-> "u1", await |-> 2]] = 1

\* Every row of `before` is in `after`, at its place and under its id.
RowsKept(before, after) ==
    /\ Len(after) >= Len(before)
    /\ \A i \in DOMAIN before : after[i].id = before[i].id

\* C22 (lifecycle): no handler removes a row of the exhibitions, exhibition
\* products, orders or product lists; a product row is removed by the
\* deletion of a product only, and a product list item by the replacement
\* of the items of a product list only.
Lifecycle ==
    [][ /\ RowsKept(exhibitions, exhibitions')
        /\ RowsKept(exhibitionProducts, exhibitionProducts')
        /\ RowsKept(orders, orders')
        /\ RowsKept(productLists, productLists')
        /\ ~RowsKept(products, products')
           => last'.op = "DELETE /api/products/[id]"
        /\ ~RowsKept(productListItems, productListItems')
           => /\ last'.op = "PUT /api/product-lists/[id]"
              /\ IsArrayProperty(last'.args.body, "items")
      ]_vars

\* Both removals have happened: a product was deleted after the items of a
\* product list were replaced by none.
LifecycleWitness ==
    /\ last.op = "DELETE /api/products/[id]"
    /\ last.status = 200
    /\ Len(products) < Len(INITIAL_products)
    /\ Len(productListItems) < Len(INITIAL_productListItems)

\* C23 (malformed order input): a createOrder request with no exhibition
\* code, or whose items are missing or not an array, is answered 400 and
\* inserts no order; an order is inserted only after the validation loop has
\* run on its items.
MalformedOrderRejected ==
    [][ Answered("POST /api/orders") =>
          /\ ~Validated(last'.args)
             => last'.status = 400 /\ orders' = orders
          /\ orders' # orders => Validated(last'.args)
      ]_vars

\* C24 (referential integrity): in every reachable state the exhibitionId of
\* each ExhibitionProduct row is the external code of an exhibition of the
\* store and its productId is the id of a product of the store.
ReferentialIntegrity ==
    \A i \in DOMAIN exhibitionProducts :
        /\ \E e \in DOMAIN exhibitions :
               exhibitions[e].exhibitionId = exhibitionProducts[i].exhibitionId
        /\ \E p \in DOMAIN products :
               products[p].id = exhibitionProducts[i].productId

\* C25 (first failing product): a createOrder request that is refused with
\* the validation error names, by id and by the name of the product when the
\* store has it, the first item in request order that has no approved row
\* for the exhibition.
FirstFailingProductNamed ==
    [][ ( /\ Answered("POST /api/orders")
          /\ NamesExhibitionAndItems(last'.args)
          /\ last'.status = 400 )
        => LET body == last'.args
               elems == body.items.elems
               unapproved(k) ==
                   ~ApprovedRowExists(exhibitionProducts, body.exhibitionId,
                                      elems[k].productId)
           IN  \E k \in DOMAIN elems :
                   /\ unapproved(k)
                   /\ \A j \in 1..(k - 1) : ~unapproved(j)
                   /\ last'.body.productId = elems[k].productId
                   /\ LET index == getProductById(products, elems[k].productId)
                      IN  last'.body.productName =
                              IF index = 0 THEN Undefined ELSE products[index].name
      ]_vars

\* C26 (store-assigned order fields): the order that createOrder inserts
\* has status DRAFT, the id the handler drew and the createdAt it stamped,
\* whatever id, status or createdAt the request body carries.
StoreAssignedOrderFields ==
    [][ orders' # orders =>
          LET order == orders'[Len(orders')]
          IN  /\ Len(orders') = Len(orders) + 1
              /\ order.status = "DRAFT"
              /\ order.id \in RandomOrderIds
              /\ order.createdAt = Now
      ]_vars

\* C27 (external-code linkage): the ExhibitionProduct rows that
\* createExhibition inserts carry the external code of the new exhibition
\* and not its internal id; an order keyed by the external code of an
\* exhibition is inserted when each of its items has an approved row under
\* that code; and an order with items keyed by the internal id of an
\* exhibition is refused.
ExternalCodeLinkage ==
    [][ /\ ( last'.op = "POST /api/exhibitions" /\ last'.status = 201 )
           => /\ last'.body.exhibitionId # last'.body.id
              /\ \A i \in (Len(exhibitionProducts) + 1)..Len(exhibitionProducts') :
                     exhibitionProducts'[i].exhibitionId = last'.body.exhibitionId
        /\ ( /\ Answered("POST /api/orders")
             /\ NamesExhibitionAndItems(last'.args)
             /\ last'.args.items.elems # <<>> )
           => LET body == last'.args
                  elems == body.items.elems
              IN  /\ ( /\ \E e \in DOMAIN exhibitions :
                              exhibitions[e].exhibitionId = body.exhibitionId
                       /\ \A k \in DOMAIN elems :
                              ApprovedRowExists(exhibitionProducts, body.exhibitionId,
                                                elems[k].productId) )
                     => last'.status = 201
                  /\ ( \E e \in DOMAIN exhibitions :
                           exhibitions[e].id = body.exhibitionId )
                     => last'.status = 400 /\ orders' = orders
      ]_vars

\* The first row of the pair in the table is approved.
FirstRowApproved(table, exhibitionId, productId) ==
    LET rows == RowsOfPair(table, exhibitionId, productId)
    IN  /\ rows # {}
        /\ table[CHOOSE i \in rows : \A j \in rows : i <= j].status = "approved"

\* C28 (independent approval concepts): whether createOrder inserts the
\* order is decided by the status of the ExhibitionProduct rows of its items
\* alone, whatever the isApproved flags of the products; updateProduct leaves
\* every ExhibitionProduct row as it was, and setApproval leaves every
\* product as it was.
IndependentApproval ==
    [][ /\ ( Answered("POST /api/orders") /\ NamesExhibitionAndItems(last'.args) )
           => LET body == last'.args
              IN  last'.status = 201
                  <=> \A k \in DOMAIN body.items.elems :
                          FirstRowApproved(exhibitionProducts, body.exhibitionId,
                                           body.items.elems[k].productId)
        /\ Answered("PUT /api/products/[id]")
           => exhibitionProducts' = exhibitionProducts
        /\ Answered("POST /api/exhibitions/approve")
           => products' = products
      ]_vars

\* An order was inserted with an item whose product has isApproved FALSE.
IndependentApprovalWitness ==
    /\ last.op = "POST /api/orders"
    /\ last.status = 201
    /\ NamesExhibitionAndItems(last.args)
    /\ \E k \in DOMAIN last.args.items.elems, i \in DOMAIN products :
           /\ products[i].id = last.args.items.elems[k].productId
           /\ products[i].isApproved = FALSE

\* The items of a request body, each naming a product.
NamesItems(body) ==
    /\ Has(body, "items")
    /\ body.items.isArray
    /\ \A i \in DOMAIN body.items.elems : Has(body.items.elems[i], "productId")

\* C29 (product lists bypass the gate): createProductList and
\* updateProductList succeed whatever the ExhibitionProduct rows of their
\* items' products are (pending, rejected or none); a newly created list has
\* status pending; and neither operation changes an ExhibitionProduct row or
\* an order.
ListsBypassGate ==
    [][ /\ ( /\ Answered("POST /api/product-lists")
             /\ Has(last'.args, "exhibitionId")
             /\ Has(last'.args, "supplierId")
             /\ NamesItems(last'.args) )
           => /\ last'.status = 201
              /\ Len(productLists') = Len(productLists) + 1
              /\ productLists'[Len(productLists')].status = "pending"
        /\ ( /\ Answered("PUT /api/product-lists/[id]")
             /\ \E i \in DOMAIN productLists : productLists[i].id = last'.args.id
             /\ Has(last'.args.body, "items") => NamesItems(last'.args.body) )
           => last'.status = 200
        /\ ( Answered("POST /api/product-lists")
             \/ Answered("PUT /api/product-lists/[id]") )
           => /\ exhibitionProducts' = exhibitionProducts
              /\ orders' = orders
      ]_vars

\* A list was created with an item whose product has a rejected row for the
\* list's exhibition.
ListsBypassGateWitness ==
    /\ last.op = "POST /api/product-lists"
    /\ last.status = 201
    /\ \E k \in DOMAIN last.args.items.elems, i \in DOMAIN exhibitionProducts :
           /\ exhibitionProducts[i].exhibitionId = last.args.exhibitionId
           /\ exhibitionProducts[i].productId = last.args.items.elems[k].productId
           /\ exhibitionProducts[i].status = "rejected"

\* The rows of the items table that are attached to the list, in table order.
AttachedItems(items, productListId) ==
    Filter(items, LAMBDA row : row.productListId = productListId)

\* The row is the row of the supplied item: its product, its quantity and its
\* price, or the price 0 when the item has none.
RowOfItem(row, item, productListId) ==
    /\ row.productListId = productListId
    /\ Get(row, "productId") = Get(item, "productId")
    /\ Get(row, "quantity") = Get(item, "quantity")
    /\ row.price = IF Has(item, "price") THEN item.price ELSE 0

\* C30 (item replacement): after updateProductList(id, items) on an existing
\* list the items attached to the list are exactly the supplied items, one
\* row per item in their order and none of the rows attached before; the
\* items and the totalQuantity of every other list are unchanged; with an
\* empty items sequence the list has no items and totalQuantity 0; and a call
\* without items leaves the items table untouched.
ItemReplacement ==
    [][ ( /\ Answered("PUT /api/product-lists/[id]")
          /\ \E i \in DOMAIN productLists : productLists[i].id = last'.args.id )
        => LET id == last'.args.id
               body == last'.args.body
           IN  /\ NamesItems(body)
                  => LET elems == body.items.elems
                         attached == AttachedItems(productListItems', id)
                     IN  /\ Len(attached) = Len(elems)
                         /\ \A k \in DOMAIN elems : RowOfItem(attached[k], elems[k], id)
                         /\ elems = <<>>
                            => \A i \in DOMAIN productLists' :
                                   productLists'[i].id = id
                                   => productLists'[i].totalQuantity = Number(0)
               /\ ~Has(body, "items") => productListItems' = productListItems
               /\ Len(productLists') = Len(productLists)
               /\ \A i \in DOMAIN productLists :
                      productLists[i].id # id
                      => /\ productLists'[i] = productLists[i]
                         /\ AttachedItems(productListItems', productLists[i].id)
                                = AttachedItems(productListItems, productLists[i].id)
      ]_vars

\* Two items replaced the items of a list while another list had items.
ItemReplacementWitness ==
    /\ last.op = "PUT /api/product-lists/[id]"
    /\ last.status = 200
    /\ NamesItems(last.args.body)
    /\ Len(last.args.body.items.elems) = 2
    /\ Len(AttachedItems(productListItems, last.args.id)) = 2
    /\ \E i \in DOMAIN productLists :
           /\ productLists[i].id # last.args.id
           /\ AttachedItems(productListItems, productLists[i].id) # <<>>

\* C31 (the gate with duplicate rows): isProductApprovedForExhibition(E, P)
\* is false when no row matches (E, P) and is otherwise whether the
\* earliest-inserted row of the pair is approved; a row added later, which
\* addExhibitionProduct puts behind every row there is, does not change the
\* answer for a pair that has a row; and the call changes no table.
GateOfEarliestRow ==
    [][ /\ last'.op = "isProductApprovedForExhibition"
           => /\ last'.result = FirstRowApproved(exhibitionProducts,
                                                 last'.args.exhibitionId,
                                                 last'.args.productId)
              /\ RowsOfPair(exhibitionProducts, last'.args.exhibitionId,
                            last'.args.productId) = {}
                 => last'.result = FALSE
              /\ tables' = tables
        /\ last'.op = "addExhibitionProduct"
           => /\ SubSeq(exhibitionProducts', 1, Len(exhibitionProducts))
                     = exhibitionProducts
              /\ \A pair \in StorePairs :
                     RowsOfPair(exhibitionProducts, pair.exhibitionId,
                                pair.productId) # {}
                     => isProductApprovedForExhibition(exhibitionProducts',
                            pair.exhibitionId, pair.productId)
                        = isProductApprovedForExhibition(exhibitionProducts,
                            pair.exhibitionId, pair.productId)
      ]_vars

\* The gate answered false for a pair whose first row is not approved and
\* whose later row is.
GateOfEarliestRowWitness ==
    /\ last.op = "isProductApprovedForExhibition"
    /\ last.result = FALSE
    /\ ApprovedRowExists(exhibitionProducts, last.args.exhibitionId,
                         last.args.productId)

\* C32 (approval is revocable): setApproval with a valid status and the id
\* of a row gives the row that status whatever its status was, so an approved
\* row can be rejected and a rejected row approved; and once an approved row
\* has been rejected the gate of createOrder refuses the row's exhibition
\* and product again.
ApprovalRevocable ==
    [][ ( /\ Answered("POST /api/exhibitions/approve")
          /\ last'.args.status \in {"approved", "rejected"}
          /\ \E i \in DOMAIN exhibitionProducts :
                 exhibitionProducts[i].id = last'.args.id )
        => LET index == FindIndex(exhibitionProducts,
                                  LAMBDA ep : ep.id = last'.args.id)
               row == exhibitionProducts[index]
           IN  /\ last'.status = 200
               /\ exhibitionProducts'[index].status = last'.args.status
               /\ ( row.status = "approved" /\ last'.args.status = "rejected" )
                  => FirstFailingItem(exhibitionProducts', row.exhibitionId,
                                      <<[productId |-> row.productId]>>) = 1
      ]_vars

\* C33 (setApproval frame): a successful setApproval changes the status
\* field of the one row it targets and nothing else: every other field of
\* the row, every other ExhibitionProduct row, the products, the exhibitions,
\* the product lists and their items, and every order inserted before, the
\* orders of the row's product among them, are as they were.
SetApprovalFrame ==
    [][ ( Answered("POST /api/exhibitions/approve") /\ last'.status = 200 )
        => /\ Len(exhibitionProducts') = Len(exhibitionProducts)
           /\ \E t \in DOMAIN exhibitionProducts :
                  /\ exhibitionProducts[t].id = last'.args.id
                  /\ \A i \in DOMAIN exhibitionProducts :
                         i # t => exhibitionProducts'[i] = exhibitionProducts[i]
                  /\ DOMAIN exhibitionProducts'[t] = DOMAIN exhibitionProducts[t]
                  /\ \A f \in DOMAIN exhibitionProducts[t] :
                         f # "status"
                         => exhibitionProducts'[t][f] = exhibitionProducts[t][f]
           /\ products' = products
           /\ exhibitions' = exhibitions
           /\ orders' = orders
           /\ productLists' = productLists
           /\ productListItems' = productListItems
      ]_vars

\* A row was rejected while an order of the row's exhibition and product
\* was in the store.
SetApprovalFrameWitness ==
    /\ last.op = "POST /api/exhibitions/approve"
    /\ last.status = 200
    /\ last.body.status = "rejected"
    /\ \E o \in DOMAIN orders :
           /\ Has(orders[o], "items")
           /\ orders[o].exhibitionId = last.body.exhibitionId
           /\ \E k \in DOMAIN orders[o].items.elems :
                  orders[o].items.elems[k].productId = last.body.productId

\* C34 (errors leave the store unchanged): a request answered with an error
\* (401 unauthenticated, 403 forbidden, 404 not found, 400 validation
\* failure, 500 internal failure on a malformed item) leaves every table as
\* it was before the request.
ErrorsLeaveStoreUnchanged ==
    [][ last'.status \in {400, 401, 403, 404, 500} => tables' = tables ]_vars

\* C35 (operation-to-capability binding): each operation is admitted exactly
\* for the actors whose role is in the allow-set of its one capability (the
\* capability of OperationCapability): such a request is never answered 401
\* or 403, every other request is answered 401 or 403 before its arguments
\* are read and changes no table; and no step changes a table but the answer
\* of one of these operations to an admitted actor.
OperationBinding ==
    [][ /\ last'.op \in DOMAIN OperationCapability
           => LET context == authenticateUser(last'.token)
                  admitted ==
                      /\ ~context.isNull
                      /\ RoleName[context.user.role]
                             \in Section41[OperationCapability[last'.op]]
              IN  /\ admitted <=> last'.status \notin {401, 403}
                  /\ ~admitted => last'.args = NoArgs /\ tables' = tables
        /\ tables' # tables => last'.op \in DOMAIN OperationCapability
      ]_vars

\* The MANAGER u2, who is admitted to updateProduct, has been refused
\* deleteProduct, and a product has been deleted before by an ADMIN.
OperationBindingWitness ==
    /\ last.op = "DELETE /api/products/[id]"
    /\ last.token = "u2"
    /\ last.status = 403
    /\ requireRoles("u2", Permission("PRODUCT_UPDATE")).authorized
    /\ Len(products) < Len(INITIAL_products)

\* The order is in the result of listOrders: as an element of it, or as one
\* of the orders of an element.
Listed(order, result) ==
    \E i \in DOMAIN result :
        \/ Get(result[i], "id") = order.id
        \/ \E k \in DOMAIN result[i].orders :
               Get(result[i].orders[k], "id") = order.id

\* C36 (created orders are listed): every order that a createOrder has
\* inserted for an exhibition and a non-empty list of items, a row of the
\* orders table behind its seed, is contained in the result of every later
\* listOrders.
CreatedOrdersListed ==
    [][ ( Answered("GET /api/orders") /\ last'.status = 200 )
        => \A o \in (Len(INITIAL_orders) + 1)..Len(orders) :
               ( /\ NamesExhibitionAndItems(orders[o])
                 /\ orders[o].exhibitionId # Undefined
                 /\ orders[o].items.elems # <<>> )
               => Listed(orders[o], last'.body)
      ]_vars

\* C37 (reset restores the seed): reset() makes every table equal to the
\* seed data, whatever the operations before it, so any two resets leave
\* equal tables; no operation of the store changes INITIAL_DATA; and
\* getInstance returns the one instance there is and constructs no other.
ResetRestoresSeed ==
    [][ /\ last'.op = "reset" => tables' = INITIAL_DATA
        /\ template' = template
        /\ TemplateData(template') = INITIAL_DATA
        /\ last'.op = "getInstance"
           => /\ last'.result = instance
              /\ instance' = instance
              /\ tables' = tables
      ]_vars

\* A reset has put the tables back to the seed while a caller holds the
\* exhibition products it read before, a row more than the seed has.
ResetRestoresSeedWitness ==
    /\ last.op = "reset"
    /\ tables = INITIAL_DATA
    /\ HeldOf(last) # Null
    /\ HeldOf(last).table = "exhibitionProducts"
    /\ Len(HeldOf(last).value) > Len(INITIAL_exhibitionProducts)
====
